---- MODULE Spec2Model ----
(***************************************************************************)
(* A model of the block-world planner: the arm primitives of the low-level *)
(* node and of the text executor, the A* engine, the goal tree with its    *)
(* leaf searches, the top-level plan() driver and the interpreter's DNF    *)
(* construction.                                                           *)
(*                                                                         *)
(* Columns are numbered from 0 as in the source; the stack of column c is  *)
(* stacks[c + 1].  Within a stack index 1 is the bottom.                   *)
(***************************************************************************)
EXTENDS Integers, Sequences, FiniteSets, TLC

VARIABLES
    world0,   \* the WorldState the session started from (never mutated by planning)
    node,     \* SpecPrim: a NodeLowLevel driven by arbitrary primitives
    exec,     \* the TextWorld executor's currentState, plus an error flag
    last,     \* SpecPrim: the last primitive tried and whether each side accepted it
    prob,     \* the arguments of the running aStarSearch call (graph, start, goal, heuristics, timeout)
    search    \* the locals of the running aStarSearch call, and its SearchResult once it returned

vars == <<world0, node, exec, last, prob, search>>

primVars == <<world0, node, exec, last>>

searchVars == <<prob, search>>

----------------------------------------------------------------------------
(* Values *)

\* JavaScript null for WorldState.holding
null == "null"

\* The four arm primitives
Actions == <<"l", "r", "p", "d">>

\* world.objects of the model worlds: identifier -> SimpleObject (form, size)
Objects ==
    [a |-> [form |-> "ball",    size |-> "small"],
     b |-> [form |-> "box",     size |-> "large"],
     c |-> [form |-> "brick",   size |-> "small"],
     e |-> [form |-> "table",   size |-> "large"],
     k |-> [form |-> "box",     size |-> "small"],
     p |-> [form |-> "pyramid", size |-> "small"]]

\* world.objects[name]: undefined for a name that is no key (such as floor)
undefined == [form |-> "undefined", size |-> "undefined"]

ObjectOf(name) == IF name \in DOMAIN Objects THEN Objects[name] ELSE undefined

----------------------------------------------------------------------------
(* Sequence helpers *)

Range(s) == {s[i] : i \in DOMAIN s}

Last(s) == s[Len(s)]

Front(s) == SubSeq(s, 1, Len(s) - 1)

\* Array.prototype.indexOf, 0-based, -1 when absent
IndexOf(s, x) ==
    IF \E i \in DOMAIN s : s[i] = x
    THEN (CHOOSE i \in DOMAIN s : s[i] = x /\ \A j \in 1..(i - 1) : s[j] # x) - 1
    ELSE -1

Abs(x) == IF x < 0 THEN -x ELSE x

Min(S) == CHOOSE x \in S : \A y \in S : x <= y

----------------------------------------------------------------------------
(* Feasibility rule of the low-level drop *)

\* A placement rule under which a box takes any object of its own size
canPlaceSameSizeInBox(objectA, objectB) ==
    IF objectA = undefined THEN FALSE
    ELSE IF objectB = undefined THEN TRUE
    ELSE IF objectB.form = "ball" THEN FALSE
    ELSE IF objectB.form = "box" THEN ~(objectA.size = "large" /\ objectB.size = "small")
    ELSE
        IF objectA.size = "large" /\ objectB.size = "small" THEN FALSE
        ELSE IF objectA.form = "ball" THEN FALSE
        ELSE IF objectA.form = "box" /\ objectA.size = "small"
                /\ objectB.form \in {"brick", "pyramid"} /\ objectB.size = "small" THEN FALSE
        ELSE IF objectA.form = "box" /\ objectA.size = "large"
                /\ objectB.form = "pyramid" THEN FALSE
        ELSE TRUE

canPlace(objectA, objectB) ==
    IF objectA = undefined THEN FALSE
    ELSE IF objectB = undefined THEN TRUE
    ELSE IF objectB.form = "ball" THEN FALSE
    ELSE IF objectB.form = "box" THEN
        IF objectA.size = "large" /\ objectB.size = "small" THEN FALSE
        ELSE IF objectA.form \in {"pyramid", "plank", "box"}
                /\ (objectB.size = "small" \/ objectA.size = "large") THEN FALSE
        ELSE TRUE
    ELSE
        IF objectA.size = "large" /\ objectB.size = "small" THEN FALSE
        ELSE IF objectA.form = "ball" THEN FALSE
        ELSE IF objectA.form = "box" /\ objectA.size = "small"
                /\ objectB.form \in {"brick", "pyramid"} /\ objectB.size = "small" THEN FALSE
        ELSE IF objectA.form = "box" /\ objectA.size = "large"
                /\ objectB.form = "pyramid" THEN FALSE
        ELSE TRUE

----------------------------------------------------------------------------
(* NodeLowLevel *)

\* NodeLowLevel.fromWorld: a copy of the world's stacks, holding and arm.  The
\* id string is only computed by updateState, so a node made from a world has
\* the empty id (fresh = TRUE).
fromWorld(w) ==
    [stacks |-> w.stacks, holding |-> w.holding, arm |-> w.arm, fresh |-> TRUE]

\* NodeLowLevel.id / toString(): stacks, arm and holding joined; identifiers
\* are single letters, so the tuple determines the string and conversely.
NodeId(n) == IF n.fresh THEN <<>> ELSE <<n.stacks, n.arm, n.holding>>

\* case "l" of updateState
updateLeft(n) ==
    IF n.arm = 0
    THEN [ok |-> FALSE, node |-> n]
    ELSE [ok |-> TRUE, node |-> [n EXCEPT !.arm = n.arm - 1, !.fresh = FALSE]]

\* The right move without its edge test
updateRightUnguarded(n) ==
    [ok |-> TRUE, node |-> [n EXCEPT !.arm = n.arm + 1, !.fresh = FALSE]]

\* case "r" of updateState
updateRight(n) ==
    IF n.arm = Len(n.stacks) - 1
    THEN [ok |-> FALSE, node |-> n]
    ELSE [ok |-> TRUE, node |-> [n EXCEPT !.arm = n.arm + 1, !.fresh = FALSE]]

\* A pick that takes hold of the floor when the column is empty
updatePickGraspsFloor(n) ==
    IF n.holding # null
    THEN [ok |-> FALSE, node |-> n]
    ELSE LET pickStack == n.stacks[n.arm + 1] IN
         IF Len(pickStack) = 0
         THEN [ok |-> TRUE, node |-> [n EXCEPT !.holding = "floor", !.fresh = FALSE]]
         ELSE [ok |-> TRUE,
               node |-> [n EXCEPT !.stacks[n.arm + 1] = Front(pickStack),
                                  !.holding = Last(pickStack),
                                  !.fresh = FALSE]]

\* case "p" of updateState
updatePick(n) ==
    IF n.holding # null
    THEN [ok |-> FALSE, node |-> n]
    ELSE LET pickStack == n.stacks[n.arm + 1] IN
         IF Len(pickStack) = 0
         THEN [ok |-> FALSE, node |-> n]
         ELSE [ok |-> TRUE,
               node |-> [n EXCEPT !.stacks[n.arm + 1] = Front(pickStack),
                                  !.holding = Last(pickStack),
                                  !.fresh = FALSE]]

\* A drop that forgets to empty the arm
updateDropKeepsHolding(n) ==
    IF n.holding = null
    THEN [ok |-> FALSE, node |-> n]
    ELSE LET dropStack == n.stacks[n.arm + 1] IN
         IF Len(dropStack) # 0
            /\ ~canPlace(ObjectOf(n.holding), ObjectOf(Last(dropStack)))
         THEN [ok |-> FALSE, node |-> n]
         ELSE [ok |-> TRUE,
               node |-> [n EXCEPT !.stacks[n.arm + 1] = Append(dropStack, n.holding),
                                  !.fresh = FALSE]]

\* A drop without the test of the physical laws
updateDropAnywhere(n) ==
    IF n.holding = null
    THEN [ok |-> FALSE, node |-> n]
    ELSE LET dropStack == n.stacks[n.arm + 1] IN
         [ok |-> TRUE,
          node |-> [n EXCEPT !.stacks[n.arm + 1] = Append(dropStack, n.holding),
                             !.holding = null,
                             !.fresh = FALSE]]

\* case "d" of updateState
updateDrop(n) ==
    IF n.holding = null
    THEN [ok |-> FALSE, node |-> n]
    ELSE LET dropStack == n.stacks[n.arm + 1] IN
         IF Len(dropStack) # 0
            /\ ~canPlace(ObjectOf(n.holding), ObjectOf(Last(dropStack)))
         THEN [ok |-> FALSE, node |-> n]
         ELSE [ok |-> TRUE,
               node |-> [n EXCEPT !.stacks[n.arm + 1] = Append(dropStack, n.holding),
                                  !.holding = null,
                                  !.fresh = FALSE]]

\* NodeLowLevel.updateState(action): ok is the boolean it returns, node the
\* node afterwards (untouched when the move is refused).
updateState(n, action) ==
    CASE action = "l" -> updateLeft(n)
      [] action = "r" -> updateRight(n)
      [] action = "p" -> updatePick(n)
      [] action = "d" -> updateDrop(n)
      [] OTHER -> [ok |-> TRUE, node |-> [n EXCEPT !.fresh = FALSE]]

----------------------------------------------------------------------------
(* TextWorld: the executor's four actions.  Each throws (error = TRUE, state *)
(* untouched) or mutates currentState.                                      *)

TextWorld(w) == [stacks |-> w.stacks, holding |-> w.holding, arm |-> w.arm, error |-> FALSE]

left(x) ==
    IF x.arm <= 0 THEN [x EXCEPT !.error = TRUE] ELSE [x EXCEPT !.arm = x.arm - 1]

right(x) ==
    IF x.arm >= Len(x.stacks) - 1 THEN [x EXCEPT !.error = TRUE] ELSE [x EXCEPT !.arm = x.arm + 1]

pick(x) ==
    IF x.holding # null THEN [x EXCEPT !.error = TRUE]
    ELSE IF Len(x.stacks[x.arm + 1]) - 1 < 0 THEN [x EXCEPT !.error = TRUE]
    ELSE [x EXCEPT !.holding = Last(x.stacks[x.arm + 1]), !.stacks[x.arm + 1] = Front(@)]

drop(x) ==
    IF x.holding = null THEN [x EXCEPT !.error = TRUE]
    ELSE [x EXCEPT !.stacks[x.arm + 1] = Append(@, x.holding), !.holding = null]

\* TextWorld.getAction: the method a plan token dispatches to
getAction(x, act) ==
    CASE act = "p" -> pick(x)
      [] act = "d" -> drop(x)
      [] act = "l" -> left(x)
      [] act = "r" -> right(x)

----------------------------------------------------------------------------
(* Worlds *)

\* Number of columns of the worlds the primitives are exercised on
PrimStacks == 3

\* Identifiers placed in those worlds
PrimIds == {"a", "b"}

\* Every way to lay the identifiers of ids out over n columns
Layouts(ids, n) ==
    LET perms == {s \in [1..Cardinality(ids) -> ids] : Range(s) = ids}
    IN  {[i \in 1..n |-> SelectSeq(s, LAMBDA x : col[x] = i)] :
            s \in perms, col \in [ids -> 1..n]}

\* Whether every object of the layout rests on the floor or on an object
\* that supports it
Stable(st) ==
    \A c \in DOMAIN st : \A i \in 2..Len(st[c]) :
        canPlace(ObjectOf(st[c][i]), ObjectOf(st[c][i - 1]))

\* Every world of n columns over ids: any stable layout, any arm column, and
\* either nothing or any one identifier in the arm
WorldsOver(ids, n) ==
    UNION {{[stacks |-> st, holding |-> h, arm |-> a] :
                st \in {l \in Layouts(ids \ {h}, n) : Stable(l)}, a \in 0..(n - 1)} :
           h \in ids \cup {null}}

----------------------------------------------------------------------------
(* The frontier's priority queue.  typescript-collections' PriorityQueue is  *)
(* a binary heap kept in an array: add pushes and sifts up, dequeue moves    *)
(* the last element to the root and sifts down.  queue[i + 1] is data[i].    *)
(*                                                                           *)
(* Heuristic values are kept doubled (field heuristic holds 2 * h), so that  *)
(* the leaf heuristic 0.5 * own + 0.5 * up stays an integer.                 *)

\* Math.min() of no numbers, and everything computed from it
Infinity == 1000000

\* SearchNode.totalCost(), doubled
totalCost(sn) ==
    IF sn.heuristic >= Infinity THEN Infinity ELSE 2 * sn.pathCost + sn.heuristic

\* The heap's comparison of a and b is totalCost(a) - totalCost(b), which is
\* NaN for two infinite costs; NaN is neither > 0 nor <= 0.
IsNaN(a, b) == totalCost(a) = Infinity /\ totalCost(b) = Infinity

CompareGT(a, b) == ~IsNaN(a, b) /\ totalCost(a) > totalCost(b)

CompareLE(a, b) == ~IsNaN(a, b) /\ totalCost(a) <= totalCost(b)

Swap(data, i, j) == [data EXCEPT ![i + 1] = data[j + 1], ![j + 1] = data[i + 1]]

RECURSIVE siftUp(_, _)
siftUp(data, index) ==
    LET parent == (index - 1) \div 2 IN
    IF index > 0 /\ CompareGT(data[parent + 1], data[index + 1])
    THEN siftUp(Swap(data, parent, index), parent)
    ELSE data

minIndex(data, leftChild, rightChild) ==
    IF rightChild >= Len(data)
    THEN (IF leftChild >= Len(data) THEN -1 ELSE leftChild)
    ELSE (IF CompareLE(data[leftChild + 1], data[rightChild + 1]) THEN leftChild ELSE rightChild)

RECURSIVE siftDown(_, _)
siftDown(data, nodeIndex) ==
    LET min == minIndex(data, 2 * nodeIndex + 1, 2 * nodeIndex + 2) IN
    IF min >= 0 /\ CompareGT(data[nodeIndex + 1], data[min + 1])
    THEN siftDown(Swap(data, min, nodeIndex), min)
    ELSE data

\* PriorityQueue.add
queueAdd(data, sn) == siftUp(Append(data, sn), Len(data))

\* PriorityQueue.dequeue on a non-empty queue: the array left behind
queueRemoveRoot(data) ==
    IF Len(data) = 1 THEN <<>>
    ELSE siftDown([Front(data) EXCEPT ![1] = Last(data)], 0)

----------------------------------------------------------------------------
(* Goal nodes.  A goal is a record with its class (cls) and the item, goal   *)
(* and relation it was constructed with.  The world w is the WorldState the  *)
(* low-level node keeps a reference to (state.world).                        *)

\* Object.keys(state.world.objects), in insertion order
ObjectNames == <<"a", "b", "c", "e", "k", "p">>

\* state.stacks.indexOf(stacks[0]) for the stacks holding item: the 0-based
\* column of the first stack that contains item, -1 when none does
StackIndex(stacks, item) ==
    IF \E c \in DOMAIN stacks : item \in Range(stacks[c])
    THEN (CHOOSE c \in DOMAIN stacks :
             /\ item \in Range(stacks[c])
             /\ \A b \in 1..(c - 1) : item \notin Range(stacks[b])) - 1
    ELSE -1

\* The stack predicates with left and right exchanged
stackCheckMirrored(relation, goal, stackId, state) ==
    LET g == StackIndex(state.stacks, goal) IN
    IF g = -1 THEN FALSE
    ELSE CASE relation = "beside"  -> (g - 1 = stackId) \/ (g + 1 = stackId)
           [] relation = "leftof"  -> g < stackId
           [] relation = "rightof" -> g > stackId

\* MoveToStackGoal.stackCheck[relation](goal)(stackId, state)
stackCheck(relation, goal, stackId, state) ==
    LET g == StackIndex(state.stacks, goal) IN
    IF g = -1 THEN FALSE
    ELSE CASE relation = "beside"  -> (g - 1 = stackId) \/ (g + 1 = stackId)
           [] relation = "leftof"  -> g > stackId
           [] relation = "rightof" -> g < stackId

\* The 0-based columns of state.stacks for which stackValid holds
ValidStacks(g, state) ==
    {c \in 0..(Len(state.stacks) - 1) : stackCheck(g.relation, g.goal, c, state)}

\* ClearOnStackGoal.isClear
isClear(g, stackId, state) ==
    LET dropStack == state.stacks[stackId + 1] IN
    IF Len(dropStack) = 0 THEN TRUE
    ELSE canPlace(ObjectOf(g.item), ObjectOf(Last(dropStack)))

HoldingFulfilled(g, state) == state.holding = g.item

OnStackFulfilled(g, state) ==
    LET s == StackIndex(state.stacks, g.item) IN
    IF s = -1 THEN FALSE ELSE stackCheck(g.relation, g.goal, s, state)

WidenStackFulfilled(g, state) ==
    IF g.goal = "floor" THEN TRUE
    ELSE LET s == StackIndex(state.stacks, g.goal) IN
         IF s = -1 THEN FALSE
         ELSE LET goalStack == state.stacks[s + 1] IN
              IF IndexOf(goalStack, g.item) >= 0 THEN TRUE
              ELSE canPlace(ObjectOf(g.item), ObjectOf(Last(goalStack)))

SameStackFulfilled(g, state) ==
    LET indexA == StackIndex(state.stacks, g.item) IN
    IF indexA = -1 THEN FALSE
    ELSE LET stackIndexA == IndexOf(state.stacks[indexA + 1], g.item) IN
         IF g.goal # "floor"
         THEN LET indexB == StackIndex(state.stacks, g.goal) IN
              IF indexB = -1 THEN FALSE
              ELSE IF indexA # indexB THEN FALSE
              ELSE LET stackIndexB == IndexOf(state.stacks[indexB + 1], g.goal) IN
                   CASE g.relation = "above" -> stackIndexA > stackIndexB
                     [] g.relation = "ontop" -> stackIndexA - 1 = stackIndexB
         ELSE CASE g.relation = "above" -> stackIndexA >= 0
                [] g.relation = "ontop" -> stackIndexA = 0

ClearStackFulfilled(g, state, w) ==
    IF g.item = "floor" THEN \E c \in DOMAIN w.stacks : Len(w.stacks[c]) = 0
    ELSE LET s == StackIndex(state.stacks, g.item) IN
         IF s = -1 THEN FALSE
         ELSE IndexOf(state.stacks[s + 1], g.item) = Len(state.stacks[s + 1]) - 1

ClearOnStackFulfilled(g, state) ==
    \E c \in ValidStacks(g, state) : isClear(g, c, state)

\* isFulfilled of a leaf goal
LeafFulfilled(g, state, w) ==
    CASE g.cls = "Holding"      -> HoldingFulfilled(g, state)
      [] g.cls = "OnStack"      -> OnStackFulfilled(g, state)
      [] g.cls = "WidenStack"   -> WidenStackFulfilled(g, state)
      [] g.cls = "SameStack"    -> SameStackFulfilled(g, state)
      [] g.cls = "ClearStack"   -> ClearStackFulfilled(g, state, w)
      [] g.cls = "ClearOnStack" -> ClearOnStackFulfilled(g, state)

\* Math.min.apply(Math, list) of a set of numbers
MathMin(S) == IF S = {} THEN Infinity ELSE Min(S)

\* Sum of two numbers either of which may be Infinity
Plus(x, y) == IF x >= Infinity \/ y >= Infinity THEN Infinity ELSE x + y

HoldingHeuristic(g, state) ==
    IF HoldingFulfilled(g, state) THEN 0
    ELSE LET s == StackIndex(state.stacks, g.item) IN
         IF s = -1 THEN 0
         ELSE Abs(state.arm - s) + 1

OnStackHeuristic(g, state) ==
    IF OnStackFulfilled(g, state) THEN 0
    ELSE LET s == StackIndex(state.stacks, g.item)
             itemId == IF s = -1 THEN state.arm ELSE s
         IN  MathMin({stackId - itemId : stackId \in ValidStacks(g, state)})

\* The loop bound of WidenStackGoal.getHeuristic
WidenLimit == 10

\* The base the loop of WidenStackGoal.getHeuristic moves on to: the first
\* object supporting itemObject that the largest number of objects supports
newItem(itemObject) ==
    LET objects == [i \in DOMAIN ObjectNames |-> Objects[ObjectNames[i]]]
        bases == SelectSeq(objects, LAMBDA object : canPlace(itemObject, object))
        supportCount(base) == Len(SelectSeq(objects, LAMBDA object : canPlace(base, object)))
        best == {i \in DOMAIN bases :
                    /\ supportCount(bases[i]) > 0
                    /\ \A j \in DOMAIN bases : supportCount(bases[j]) <= supportCount(bases[i])
                    /\ \A j \in 1..(i - 1) : supportCount(bases[j]) < supportCount(bases[i])}
    IN  IF best = {} THEN undefined ELSE bases[CHOOSE i \in best : TRUE]

RECURSIVE WidenLoop(_, _, _)
WidenLoop(itemObject, goalObject, result) ==
    IF canPlace(itemObject, goalObject) THEN result
    ELSE IF result + 1 > WidenLimit THEN result + 1
    ELSE WidenLoop(newItem(itemObject), goalObject, result + 1)

WidenStackHeuristic(g, state) ==
    IF WidenStackFulfilled(g, state) THEN 0
    ELSE LET s == StackIndex(state.stacks, g.goal) IN
         IF s = -1 THEN 0
         ELSE 10 * WidenLoop(ObjectOf(g.item), ObjectOf(Last(state.stacks[s + 1])), 0)

SameStackHeuristic(g, state) ==
    IF SameStackFulfilled(g, state) THEN 0
    ELSE LET a == StackIndex(state.stacks, g.item)
             b == StackIndex(state.stacks, g.goal)
         IN  IF a = -1 \/ b = -1
             THEN Abs((IF a = -1 THEN b ELSE a) - state.arm)
             ELSE Abs(a - b)

ClearStackHeuristic(g, state, w) ==
    IF ClearStackFulfilled(g, state, w) THEN 0
    ELSE IF g.item = "floor"
    THEN LET minFloor == MathMin({Len(w.stacks[c]) : c \in DOMAIN w.stacks})
             minDistanceFloor ==
                 MathMin({Abs((c - 1) - state.arm) :
                             c \in {b \in DOMAIN w.stacks : Len(w.stacks[b]) = minFloor}})
         IN  Plus(Plus(minDistanceFloor, minFloor), 1)
    ELSE LET s == StackIndex(state.stacks, g.item) IN
         IF s = -1 THEN 0
         ELSE Abs(state.arm - s)
              + (Len(state.stacks[s + 1]) - 1 - IndexOf(state.stacks[s + 1], g.item))
              + 1

\* The entry ClearOnStackGoal.getHeuristic pushes for stackId, as a set:
\* the least depth i at which the item could be placed, plus the distance
\* from column indexA
ClearOnStackResult(g, state, indexA, stackId) ==
    LET stack == state.stacks[stackId + 1]
        objectB(i) == IF Len(stack) - i >= 1 THEN ObjectOf(stack[Len(stack) - i]) ELSE undefined
        fits == {i \in 0..Len(stack) : canPlace(ObjectOf(g.item), objectB(i))}
    IN  IF fits = {} THEN {} ELSE {Min(fits) + Abs(indexA - stackId)}

ClearOnStackHeuristic(g, state) ==
    IF ClearOnStackFulfilled(g, state) THEN 0
    ELSE LET indexA == IF Len(state.stacks) = 0 THEN state.arm ELSE 0
         IN  MathMin(UNION {ClearOnStackResult(g, state, indexA, c) : c \in ValidStacks(g, state)})

\* getHeuristic of a goal; the composite goals have none of their own
getHeuristic(g, state, w) ==
    CASE g.cls = "Holding"      -> HoldingHeuristic(g, state)
      [] g.cls = "OnStack"      -> OnStackHeuristic(g, state)
      [] g.cls = "WidenStack"   -> WidenStackHeuristic(g, state)
      [] g.cls = "SameStack"    -> SameStackHeuristic(g, state)
      [] g.cls = "ClearStack"   -> ClearStackHeuristic(g, state, w)
      [] g.cls = "ClearOnStack" -> ClearOnStackHeuristic(g, state)
      [] OTHER -> 0

\* getHeuristicUp of the last goal of chain: its own heuristic plus those of
\* all heuristic parents, which are the goals before it in the chain
RECURSIVE getHeuristicUp(_, _, _)
getHeuristicUp(chain, state, w) ==
    IF chain = <<>> THEN 0
    ELSE Plus(getHeuristic(Last(chain), state, w), getHeuristicUp(Front(chain), state, w))

\* The heuristic evaluateLowLevel hands to aStarSearch, doubled:
\* 2 * (0.5 * getHeuristic + 0.5 * getHeuristicUp)
LeafHeuristic(chain, state, w) ==
    Plus(getHeuristic(Last(chain), state, w), getHeuristicUp(chain, state, w))

----------------------------------------------------------------------------
(* The goal tree of a DNF formula.  A formula is a sequence of conjunctions, *)
(* a conjunction a sequence of literals [relation, args].  Every composite   *)
(* goal built for a literal is a chain: appendChild always descends to the   *)
(* deepest first child, so each goal of the chain has the next one as its    *)
(* only child and the previous one as its heuristicParent.                   *)

Reverse(s) == [i \in DOMAIN s |-> s[Len(s) + 1 - i]]

\* new PickUpGoal(item, ...): the goal and what its constructor appends
PickUpChain(item) ==
    <<[cls |-> "PickUp", item |-> item],
      [cls |-> "ClearStack", item |-> item],
      [cls |-> "Holding", item |-> item]>>

\* new MoveToStackGoal(item, goal, relation, ...)
MoveToStackChain(item, goal, relation) ==
    <<[cls |-> "MoveToStack", item |-> item, goal |-> goal, relation |-> relation],
      [cls |-> "ClearOnStack", item |-> item, goal |-> goal, relation |-> relation]>>
    \o PickUpChain(item)
    \o <<[cls |-> "OnStack", item |-> item, goal |-> goal, relation |-> relation]>>

\* A MoveOnTopGoal that picks the item up before it clears the goal
MoveOnTopChainPickFirst(item, goal) ==
    <<[cls |-> "MoveOnTop", item |-> item, goal |-> goal]>>
    \o PickUpChain(item)
    \o <<[cls |-> "ClearStack", item |-> goal],
         [cls |-> "SameStack", item |-> item, goal |-> goal, relation |-> "ontop"]>>

\* new MoveOnTopGoal(item, goal, ...)
MoveOnTopChain(item, goal) ==
    <<[cls |-> "MoveOnTop", item |-> item, goal |-> goal],
      [cls |-> "ClearStack", item |-> goal]>>
    \o PickUpChain(item)
    \o <<[cls |-> "SameStack", item |-> item, goal |-> goal, relation |-> "ontop"]>>

\* new MoveAboveGoal(item, goal, ...)
MoveAboveChain(item, goal) ==
    <<[cls |-> "MoveAbove", item |-> item, goal |-> goal],
      [cls |-> "WidenStack", item |-> item, goal |-> goal]>>
    \o PickUpChain(item)
    \o <<[cls |-> "SameStack", item |-> item, goal |-> goal, relation |-> "above"]>>

Bidirectional == {"leftof", "rightof", "beside"}

\* relationB of the MoveBidirectionalGoal made for relation
Opposite(relation) ==
    CASE relation = "leftof"  -> "rightof"
      [] relation = "rightof" -> "leftof"
      [] relation = "beside"  -> "beside"

\* ConjunctionGoal.create: the chain built for a literal.  side is 1 or 2
\* for the two MoveToStackGoals of a MoveBidirectionalGoal, else 0.
Chain(literal, side) ==
    LET args == literal.args IN
    CASE literal.relation = "holding" -> PickUpChain(args[1])
      [] literal.relation \in {"inside", "ontop"} -> MoveOnTopChain(args[1], args[2])
      [] literal.relation = "above" -> MoveAboveChain(args[1], args[2])
      [] literal.relation = "under" -> MoveAboveChain(Reverse(args)[1], Reverse(args)[2])
      [] literal.relation \in Bidirectional ->
            IF side = 1 THEN MoveToStackChain(args[1], args[2], literal.relation)
            ELSE MoveToStackChain(args[2], args[1], Opposite(literal.relation))

LeafClasses == {"Holding", "OnStack", "WidenStack", "SameStack", "ClearStack", "ClearOnStack"}

\* Nodes of the goal tree of formula dnf
DnfNode == [t |-> "Dnf"]

FinalNode == [t |-> "Final"]

ConjunctionNode(c) == [t |-> "Conjunction", c |-> c]

MoveBidirectionalNode(c, l) == [t |-> "MoveBidirectional", c |-> c, l |-> l]

ChainNode(c, l, side, pos) == [t |-> "Chain", c |-> c, l |-> l, side |-> side, pos |-> pos]

\* The child a ConjunctionGoal holds for its literal l
LiteralNode(dnf, c, l) ==
    IF dnf[c][l].relation \in Bidirectional THEN MoveBidirectionalNode(c, l)
    ELSE ChainNode(c, l, 0, 1)

\* The chain a chain node lies in
ChainOf(dnf, g) == Chain(dnf[g.c][g.l], g.side)

\* The goal record of a chain node
GoalOf(dnf, g) == ChainOf(dnf, g)[g.pos]

\* The leaf goal whose isFulfilled the goal at position pos of a chain uses:
\* its own for a leaf, that of its HoldingGoal for a PickUpGoal, and for the
\* other composite goals that of the last goal they appended
FulfilmentGoal(chain, pos) ==
    IF chain[pos].cls \in LeafClasses THEN chain[pos]
    ELSE IF chain[pos].cls = "PickUp" THEN [cls |-> "Holding", item |-> chain[pos].item]
    ELSE Last(chain)

\* The leaf goals the child of a ConjunctionGoal made for literal is
\* fulfilled by: one of them has to hold (someFulfilled of a
\* MoveBidirectionalGoal over its two MoveToStackGoals)
LiteralGoals(literal) ==
    {FulfilmentGoal(Chain(literal, side), 1) :
        side \in IF literal.relation \in Bidirectional THEN {1, 2} ELSE {0}}

\* allFulfilled of a ConjunctionGoal: one set of leaf goals per literal
ConjunctionGoals(conjunction) ==
    {LiteralGoals(conjunction[l]) : l \in DOMAIN conjunction}

\* What a node of the tree needs to be fulfilled: a set of alternatives, each
\* a set of requirements, each a set of leaf goals one of which must hold
Requirements(dnf, g) ==
    CASE g.t = "Dnf" -> {ConjunctionGoals(dnf[c]) : c \in DOMAIN dnf}
      [] g.t = "Final" -> {{}}
      [] g.t = "Conjunction" -> {ConjunctionGoals(dnf[g.c])}
      [] g.t = "MoveBidirectional" -> {{LiteralGoals(dnf[g.c][g.l])}}
      [] g.t = "Chain" -> {{{FulfilmentGoal(ChainOf(dnf, g), g.pos)}}}

\* isFulfilled of a node of the tree
isFulfilled(dnf, g, state, w) ==
    \E alternative \in Requirements(dnf, g) :
        \A requirement \in alternative :
            \E goal \in requirement : LeafFulfilled(goal, state, w)

\* heuristicParent of a node other than the root
heuristicParent(g) ==
    CASE g.t = "Final" -> DnfNode
      [] g.t = "Conjunction" -> DnfNode
      [] g.t = "MoveBidirectional" -> ConjunctionNode(g.c)
      [] g.t = "Chain" ->
            IF g.pos > 1 THEN ChainNode(g.c, g.l, g.side, g.pos - 1)
            ELSE IF g.side = 0 THEN ConjunctionNode(g.c)
            ELSE MoveBidirectionalNode(g.c, g.l)

\* children of a node
children(dnf, g) ==
    CASE g.t = "Dnf" -> [c \in DOMAIN dnf |-> ConjunctionNode(c)]
      [] g.t = "Final" -> <<>>
      [] g.t = "Conjunction" -> [l \in DOMAIN dnf[g.c] |-> LiteralNode(dnf, g.c, l)]
      [] g.t = "MoveBidirectional" -> <<ChainNode(g.c, g.l, 1, 1), ChainNode(g.c, g.l, 2, 1)>>
      [] g.t = "Chain" ->
            IF g.pos < Len(ChainOf(dnf, g))
            THEN <<ChainNode(g.c, g.l, g.side, g.pos + 1)>>
            ELSE <<>>

\* The precondition flag: false on the root and on conjunctions only
precondition(g) == g.t \notin {"Dnf", "Conjunction"}

\* A root that hands out the final node whatever the state
DnfChildrenFinal(dnf, state, w) == <<FinalNode>>

\* DnfGoal.getChildren
DnfChildren(dnf, state, w) ==
    IF isFulfilled(dnf, DnfNode, state, w) THEN <<FinalNode>>
    ELSE SelectSeq(children(dnf, DnfNode), LAMBDA child : ~isFulfilled(dnf, child, state, w))

\* NodeGoal.getChildren, and DnfGoal's override of it.  own is what the
\* node hands out itself; when that is nothing the heuristicParent is asked,
\* going up.
RECURSIVE getChildren(_, _, _, _, _)
getChildren(dnf, g, state, w, up) ==
    IF g.t = "Dnf" THEN DnfChildren(dnf, state, w)
    ELSE LET orParent(own) ==
                 IF Len(own) = 0
                 THEN getChildren(dnf, heuristicParent(g), state, w, TRUE)
                 ELSE own
         IN  orParent(IF precondition(g)
                      THEN IF up THEN <<>> ELSE children(dnf, g)
                      ELSE IF isFulfilled(dnf, g, state, w) THEN <<>>
                      ELSE SelectSeq(children(dnf, g),
                                     LAMBDA child : ~isFulfilled(dnf, child, state, w)))

\* Whether goal node g is one that evaluates by a low-level search
IsLeaf(dnf, g) == g.t = "Chain" /\ GoalOf(dnf, g).cls \in LeafClasses

\* The identifiers explain() describes for a chain node: every explain of a
\* chain passes through the composite goal at its head (and through the
\* PickUpGoal), which describe the arguments of the literal
Described(dnf, g) == Range(dnf[g.c][g.l].args)

\* DescribeObjectState reads size of world.objects[name]: a TypeError for a
\* name that is no key of world.objects
explainThrows(dnf, g) == \E name \in Described(dnf, g) : name \notin DOMAIN Objects

----------------------------------------------------------------------------
(* Graphs the engine is run on *)

\* GridGraph.actions in key order, as [action, dx, dy]
GridActions == <<<<"L", -1, 0>>, <<"R", 1, 0>>, <<"D", 0, -1>>, <<"U", 0, 1>>>>

\* GridGraph.successors
GridSuccessors(g, n) ==
    LET next(i) == <<n[1] + GridActions[i][2], n[2] + GridActions[i][3]>>
        ok(i) == /\ next(i) \notin g.walls
                 /\ next(i)[1] >= 0 /\ next(i)[2] >= 0
                 /\ next(i)[1] < g.xsize /\ next(i)[2] < g.ysize
        keep == SelectSeq(<<1, 2, 3, 4>>, ok)
    IN  [i \in DOMAIN keep |-> [action |-> GridActions[keep[i]][1], child |-> next(keep[i]), cost |-> 1]]

\* isgoal of the grid harness: the far corner
GridIsGoal(g, n) == n = <<g.xsize - 1, g.ysize - 1>>

\* manhattanHeuristics / noHeuristics of the grid harness
GridHeuristics(g, n) ==
    IF g.useHeuristics
    THEN Abs(n[1] - (g.xsize - 1)) + Abs(n[2] - (g.ysize - 1))
    ELSE 0

\* IGraph.successors of a graph given by its edge lists: edges[n] is the
\* array of Successor records of node n
ListSuccessors(g, n) == g.edges[n]

\* GraphLowLevel.successors: a clone of the node per action, kept when
\* updateState accepts the action
LowSuccessors(n) ==
    LET keep == SelectSeq(<<1, 2, 3, 4>>, LAMBDA i : updateState(n, Actions[i]).ok)
    IN  [j \in DOMAIN keep |->
            [action |-> Actions[keep[j]], child |-> updateState(n, Actions[keep[j]]).node,
             cost |-> 1]]

----------------------------------------------------------------------------
(* aStarSearch *)

\* The goal argument: the far corner (grid), the goal set (list), the leaf
\* goal's isFulfilled (low), goalNode instanceof FinalNode (high)
Goal(p, n) ==
    CASE p.kind = "grid" -> GridIsGoal(p, n)
      [] p.kind = "list" -> n \in p.goals
      [] p.kind = "low"  -> LeafFulfilled(Last(p.chain), n, p.world)
      [] p.kind = "high" -> n.goalNode = FinalNode

\* The heuristics argument, doubled
Heuristics(p, n) ==
    CASE p.kind = "grid" -> 2 * GridHeuristics(p, n)
      [] p.kind = "list" -> 2 * p.h[n]
      [] p.kind = "low"  -> LeafHeuristic(p.chain, n, p.world)
      [] p.kind = "high" -> 0

\* The key of a node in the discovered Set and the frontier Dictionary: its
\* toString().  NodeHighLevel ids come from a counter, so no two nodes ever
\* created share one; the model uses the node's position in the search tree.
Key(p, n) ==
    CASE p.kind = "grid" -> n
      [] p.kind = "list" -> n
      [] p.kind = "low"  -> NodeId(n)
      [] p.kind = "high" -> n.id

NoPrevious == [none |-> TRUE]

SearchNode(pathCost, heuristic, successor, previous) ==
    [pathCost |-> pathCost, heuristic |-> heuristic, node |-> successor, previous |-> previous]

\* SearchNode.reconstructPath, before the start node is sliced off
RECURSIVE LinkedPath(_)
LinkedPath(sn) ==
    IF sn.previous = NoPrevious THEN <<sn.node>>
    ELSE Append(LinkedPath(sn.previous), sn.node)

\* A reconstructPath that keeps the start node
reconstructPathWithStart(sn) == LinkedPath(sn)

\* SearchNode.reconstructPath
reconstructPath(sn) == Tail(LinkedPath(sn))

\* The nodeDictionary is a set of entries [key, value], one per key.
\* Dictionary.containsKey
HasKey(dict, k) == \E e \in dict : e.key = k

\* Dictionary.getValue of a key the dictionary contains
GetValue(dict, k) == (CHOOSE e \in dict : e.key = k).value

\* Dictionary.remove
Remove(dict, k) == {e \in dict : e.key # k}

\* Dictionary.setValue
SetValue(dict, k, v) == Remove(dict, k) \cup {[key |-> k, value |-> v]}

\* Frontier.add
FrontierAdd(p, f, sn) ==
    [queue |-> queueAdd(f.queue, sn),
     dict  |-> SetValue(f.dict, Key(p, sn.node.child), sn)]

\* Frontier.dequeue on a non-empty frontier: the frontier left behind
FrontierDequeue(p, f) ==
    [queue |-> queueRemoveRoot(f.queue),
     dict  |-> Remove(f.dict, Key(p, f.queue[1].node.child))]

\* The state of a call right after its initialisation
AStarStart(p) ==
    LET first == SearchNode(0, 0, [child |-> p.start, action |-> "", cost |-> 0], NoPrevious)
    IN  [status     |-> "running",
         frontier   |-> FrontierAdd(p, [queue |-> <<>>, dict |-> {}], first),
         discovered |-> {Key(p, p.start)},
         clock      |-> 0,
         reinserted |-> FALSE,
         path       |-> <<>>,
         cost       |-> 0,
         visited    |-> 0]

SearchResult(st, status, path, cost) ==
    [st EXCEPT !.status = status, !.path = path, !.cost = cost,
               !.visited = Cardinality(st.discovered)]

\* The loop "update successors with shorter pathCost", from successor i on
RECURSIVE UpdateShorter(_, _, _, _, _)
UpdateShorter(p, f, cur, succs, i) ==
    IF i > Len(succs) THEN f
    ELSE LET k == Key(p, succs[i].child)
             better == HasKey(f.dict, k)
                       /\ GetValue(f.dict, k).pathCost > cur.pathCost + succs[i].cost
             g == IF better
                  THEN FrontierAdd(p, f, SearchNode(cur.pathCost + succs[i].cost,
                                                    GetValue(f.dict, k).heuristic, succs[i], cur))
                  ELSE f
         IN  UpdateShorter(p, g, cur, succs, i + 1)

\* The loop "add unvisited successors", from successor i on
RECURSIVE AddUnvisited(_, _, _, _, _)
AddUnvisited(p, f, cur, succs, i) ==
    IF i > Len(succs) THEN f
    ELSE AddUnvisited(p,
            FrontierAdd(p, f, SearchNode(cur.pathCost + succs[i].cost,
                                         Heuristics(p, succs[i].child), succs[i], cur)),
            cur, succs, i + 1)

\* Whether the wall clock has passed endTime: the clock counts loop rounds
TimedOut(p, st) == st.clock > p.timeout

\* The expansion of the dequeued node without the re-insertion loop
ExpandNoReinsert(p, st, cur, rest, succs) ==
    LET unvisited == SelectSeq(succs, LAMBDA x : Key(p, x.child) \notin st.discovered)
    IN  [st EXCEPT !.frontier = AddUnvisited(p, rest, cur, unvisited, 1),
                   !.discovered = @ \cup {Key(p, unvisited[i].child) : i \in DOMAIN unvisited},
                   !.clock = @ + 1]

\* The expansion of the dequeued node cur; rest is the frontier without it
\* and succs is graph.successors(cur.node.child)
Expand(p, st, cur, rest, succs) ==
    LET unvisited == SelectSeq(succs, LAMBDA x : Key(p, x.child) \notin st.discovered)
        add(f1) ==
            [st EXCEPT !.frontier = AddUnvisited(p, f1, cur, unvisited, 1),
                       !.discovered = @ \cup {Key(p, unvisited[i].child) : i \in DOMAIN unvisited},
                       !.reinserted = @ \/ Len(f1.queue) > Len(rest.queue),
                       !.clock = @ + 1]
    IN  add(UpdateShorter(p, rest, cur, succs, 1))

\* What graph.successors yields when it throws instead of returning
Thrown == <<[thrown |-> TRUE]>>

\* How the next round of the loop ends: "running" when it goes on, "thrown"
\* when graph.successors throws out of aStarSearch
Outcome(p, st, succs) ==
    IF TimedOut(p, st) THEN "timeout"
    ELSE IF st.frontier.queue = <<>> THEN "failure"
    ELSE IF Goal(p, st.frontier.queue[1].node.child) THEN "success"
    ELSE IF succs = Thrown THEN "thrown"
    ELSE "running"

\* The node at the head of the frontier, the start node when it is empty
Current(p, st) ==
    IF st.frontier.queue = <<>> THEN p.start ELSE st.frontier.queue[1].node.child

\* One round of the while loop of aStarSearch that ends as outcome; succs is
\* graph.successors of the node at the head of the frontier
AStarRound(p, st, outcome, succs) ==
    CASE outcome = "timeout" -> SearchResult(st, "timeout", <<>>, -1)
      [] outcome = "failure" -> SearchResult(st, "failure", <<>>, -1)
      [] outcome = "success" ->
            SearchResult([st EXCEPT !.frontier = FrontierDequeue(p, st.frontier)], "success",
                         reconstructPath(st.frontier.queue[1]), st.frontier.queue[1].pathCost)
      [] outcome = "thrown" -> SearchResult(st, "thrown", <<>>, -1)
      [] outcome = "running" ->
            Expand(p, st, st.frontier.queue[1], FrontierDequeue(p, st.frontier), succs)

\* One round of the while loop of aStarSearch
AStarIter(p, st, succs) == AStarRound(p, st, Outcome(p, st, succs), succs)

\* The round budget that stands for the 10 second timeout of a low-level search
LowTimeout == 400

\* 2^RunDepth rounds are more than a search of LowTimeout rounds can take
RunDepth == 9

\* Up to 2^depth rounds of the while loop of aStarSearch on a GraphLowLevel,
\* stopping at its return
RECURSIVE AStarRounds(_, _, _)
AStarRounds(p, st, depth) ==
    IF st.status # "running" THEN st
    ELSE IF depth = 0 THEN AStarIter(p, st, LowSuccessors(Current(p, st)))
    ELSE AStarRounds(p, AStarRounds(p, st, depth - 1), depth - 1)

\* aStarSearch on a GraphLowLevel, run to its return
AStarRun(p, st) == AStarRounds(p, st, RunDepth)

\* A skip that moves the arm
evaluateSkipMoving == [success |-> TRUE, cost |-> 1, path |-> <<"r">>, state |-> [none |-> TRUE]]

\* NodeGoal.evaluateSkip
evaluateSkip == [success |-> TRUE, cost |-> 1, path |-> <<"">>, state |-> [none |-> TRUE]]

\* The token explain() contributes to a plan: a sentence "I ... ."
Explanation == "I do."

\* The aStarSearch call of evaluateLowLevel for the goal at position g.pos of
\* its chain
LowSearch(dnf, g, state, w) ==
    [kind |-> "low", start |-> state, world |-> w, timeout |-> LowTimeout,
     chain |-> SubSeq(ChainOf(dnf, g), 1, g.pos)]

\* An evaluateLowLevel result whose state is the first node of the path
FirstStateResult(result) ==
    [success |-> result.status = "success",
     cost    |-> result.cost,
     path    |-> <<Explanation>> \o [i \in DOMAIN result.path |-> result.path[i].action],
     state   |-> IF Len(result.path) > 0 THEN result.path[1].child ELSE [none |-> TRUE]]

\* What evaluateLowLevel returns for the search result; path is the action
\* string split at ";"
LowResult(result) ==
    [success |-> result.status = "success",
     cost    |-> result.cost,
     path    |-> <<Explanation>> \o [i \in DOMAIN result.path |-> result.path[i].action],
     state   |-> IF Len(result.path) > 0 THEN Last(result.path).child ELSE [none |-> TRUE]]

\* NodeGoal.evaluateLowLevel.  explain() is called once the search has
\* returned, whatever its status, and throws for a name that is no object.
evaluateLowLevel(dnf, g, state, w) ==
    IF isFulfilled(dnf, g, state, w) THEN evaluateSkip
    ELSE IF explainThrows(dnf, g) THEN [thrown |-> TRUE]
    ELSE LowResult(AStarRun(LowSearch(dnf, g, state, w), AStarStart(LowSearch(dnf, g, state, w))))

\* goal.evaluate
evaluate(dnf, g, state, w) ==
    IF IsLeaf(dnf, g) THEN evaluateLowLevel(dnf, g, state, w) ELSE evaluateSkip

\* NodeHighLevel.successors
HighSuccessors(p, n) ==
    LET successor(goal, found, i) ==
            IF "thrown" \in DOMAIN found THEN found
            ELSE [action |-> found.path,
                  child  |-> [goalNode |-> goal,
                              nodeLowLevel |-> IF found.state = [none |-> TRUE]
                                               THEN n.nodeLowLevel
                                               ELSE found.state,
                              id |-> Append(n.id, i)],
                  cost   |-> found.cost,
                  success |-> found.success]
        evaluated(goals) ==
            [i \in DOMAIN goals |->
                successor(goals[i], evaluate(p.dnf, goals[i], n.nodeLowLevel, p.world), i)]
        successful(all) ==
            IF \E i \in DOMAIN all : "thrown" \in DOMAIN all[i] THEN Thrown
            ELSE LET kept == SelectSeq(all, LAMBDA x : x.success)
                 IN  [j \in DOMAIN kept |-> [action |-> kept[j].action, child |-> kept[j].child,
                                            cost |-> kept[j].cost]]
    IN  successful(evaluated(getChildren(p.dnf, n.goalNode, n.nodeLowLevel, p.world, FALSE)))

\* graph.successors(node), by kind of graph
Successors(p, n) ==
    CASE p.kind = "grid" -> GridSuccessors(p, n)
      [] p.kind = "list" -> ListSuccessors(p, n)
      [] p.kind = "low"  -> LowSuccessors(n)
      [] p.kind = "high" -> HighSuccessors(p, n)

----------------------------------------------------------------------------
(* SpecPrim: arbitrary primitives on a low-level node and on the executor *)

\* Value of prob and search while no search is running
Idle == [kind |-> "none"]

InitPrim ==
    /\ world0 \in WorldsOver(PrimIds, PrimStacks)
    /\ node = fromWorld(world0)
    /\ exec = TextWorld(world0)
    /\ last = [act |-> "", ok |-> TRUE, thrown |-> FALSE]
    /\ prob = Idle
    /\ search = Idle

\* One primitive, offered to the node and to the executor alike
Prim(act) ==
    LET r == updateState(node, act)
        x == getAction([exec EXCEPT !.error = FALSE], act)
    IN  /\ node' = r.node
        /\ exec' = x
        /\ last' = [act |-> act, ok |-> r.ok, thrown |-> x.error]
        /\ UNCHANGED <<world0, prob, search>>

ArmLeft == Prim("l")

ArmRight == Prim("r")

ArmPick == Prim("p")

ArmDrop == Prim("d")

NextPrim == ArmLeft \/ ArmRight \/ ArmPick \/ ArmDrop

SpecPrim == InitPrim /\ [][NextPrim]_vars

\* How often identifier id occurs in the stacks and the arm of x
Occurrences(x, id) ==
    Cardinality({<<c, i>> \in (DOMAIN x.stacks) \X (1..Cardinality(PrimIds)) :
                    i <= Len(x.stacks[c]) /\ x.stacks[c][i] = id})
    + (IF x.holding = id THEN 1 ELSE 0)

\* Every identifier the stacks or the arm of x mention
Mentioned(x) ==
    UNION {Range(x.stacks[c]) : c \in DOMAIN x.stacks}
    \cup (IF x.holding = null THEN {} ELSE {x.holding})

\* C3: after any sequence of the primitives l, r, p, d, accepted or refused,
\* the stacks and the arm of the low-level node, and likewise of the
\* executor's world, hold exactly the identifiers of the initial world, each
\* of them exactly as often as initially and never more than once.
C3_Conservation ==
    \A x \in {node, exec} :
        /\ Mentioned(x) = Mentioned(world0)
        /\ \A id \in Mentioned(world0) :
              /\ Occurrences(x, id) = Occurrences(world0, id)
              /\ Occurrences(x, id) <= 1
        /\ \A c \in DOMAIN x.stacks : Len(x.stacks[c]) <= Cardinality(PrimIds)

\* A drop the node refused (canPlace) and the executor performed, after at
\* least one pick: both sides moved identifiers and they now differ.
C3_Witness ==
    /\ last.act = "d" /\ ~last.ok /\ ~last.thrown
    /\ node.holding # null /\ exec.holding = null
    /\ world0.holding = null

\* C4: the arm column of the low-level node and of the executor's world
\* always satisfies 0 <= arm < number of stacks.
C4_ArmInRange ==
    /\ node.arm >= 0 /\ node.arm < Len(node.stacks)
    /\ exec.arm >= 0 /\ exec.arm < Len(exec.stacks)

\* A move right refused by both sides at the last column, reached by moving
\* the arm there from column 0.
C4_Witness ==
    /\ last.act = "r" /\ ~last.ok /\ last.thrown
    /\ node.arm = Len(node.stacks) - 1
    /\ world0.arm = 0

\* Whether the plan token act is illegal in the executor's world x: l at
\* column 0, r at the last column, p on an empty stack or while holding, d
\* while holding nothing or onto a top object that cannot carry the held one
IllegalPrimitive(x, act) ==
    CASE act = "l" -> x.arm = 0
      [] act = "r" -> x.arm = Len(x.stacks) - 1
      [] act = "p" -> x.stacks[x.arm + 1] = <<>> \/ x.holding # null
      [] act = "d" ->
            \/ x.holding = null
            \/ /\ x.stacks[x.arm + 1] # <<>>
               /\ ~canPlace(ObjectOf(x.holding), ObjectOf(Last(x.stacks[x.arm + 1])))

\* C17: the executor raises an execution failure and leaves the world
\* unchanged for each illegal primitive: l at column 0, r at the last column,
\* p on an empty stack or while holding, d while holding nothing, and d of
\* the held object onto a top object for which canPlace is false.
C17_IllegalRefused ==
    [][IllegalPrimitive(exec, last'.act) =>
          /\ last'.thrown
          /\ exec'.stacks = exec.stacks
          /\ exec'.holding = exec.holding
          /\ exec'.arm = exec.arm]_vars

\* The primitives the low-level laws allow at node n
Legal(n, action) ==
    LET stack == n.stacks[n.arm + 1] IN
    CASE action = "l" -> n.arm > 0
      [] action = "r" -> n.arm < Len(n.stacks) - 1
      [] action = "p" -> n.holding = null /\ stack # <<>>
      [] action = "d" -> /\ n.holding # null
                         /\ \/ stack = <<>>
                            \/ canPlace(ObjectOf(n.holding), ObjectOf(Last(stack)))

\* C30: GraphLowLevel.successors returns exactly one successor, of cost 1,
\* for each legal primitive of the node and none for an illegal primitive; on
\* an illegal primitive updateState returns false and leaves the node's
\* stacks, holding and arm as they were.
C30_SuccessorsLegal ==
    LET succs == LowSuccessors(node) IN
    /\ \A a \in Range(Actions) :
          Cardinality({j \in DOMAIN succs : succs[j].action = a})
              = IF Legal(node, a) THEN 1 ELSE 0
    /\ \A j \in DOMAIN succs : succs[j].action \in Range(Actions) /\ succs[j].cost = 1
    /\ \A a \in Range(Actions) :
          ~Legal(node, a) =>
              LET r == updateState(node, a) IN
              /\ ~r.ok
              /\ r.node.stacks = node.stacks
              /\ r.node.holding = node.holding
              /\ r.node.arm = node.arm

\* A node holding an object picked earlier over a column whose top may not
\* carry it, the drop just refused: d is illegal under the physical laws and
\* the successors are the arm moves alone
C30_Witness ==
    /\ last.act = "d" /\ ~last.ok
    /\ world0.holding = null /\ node.holding # null
    /\ node.stacks[node.arm + 1] # <<>>
    /\ ~Legal(node, "d") /\ ~Legal(node, "p")
    /\ Len(LowSuccessors(node)) = Cardinality({a \in {"l", "r"} : Legal(node, a)})
    /\ Len(LowSuccessors(node)) >= 1

----------------------------------------------------------------------------
(* SpecAStar: aStarSearch, one loop round per step, on the grid harness and  *)
(* on small graphs with weighted edges                                       *)

\* Largest width and height of the grids
GridMax == 3

\* Largest number of obstacles in a grid
MaxWalls == 2

\* A deadline that passes after a few rounds, and one that does not pass
ShortTimeout == 2

LongTimeout == 60

\* The obstacle sets of an x by y grid: the start cell is left free
Obstacles(x, y) ==
    {ws \in SUBSET ((0..(x - 1)) \X (0..(y - 1))) :
        Cardinality(ws) <= MaxWalls /\ <<0, 0>> \notin ws}

GridProblems ==
    UNION {{[kind |-> "grid", xsize |-> xy[1], ysize |-> xy[2], walls |-> w,
             useHeuristics |-> u, start |-> <<0, 0>>, timeout |-> t] :
                w \in Obstacles(xy[1], xy[2]), u \in BOOLEAN,
                t \in {ShortTimeout, LongTimeout}} :
           xy \in (1..GridMax) \X (1..GridMax)}

\* Edges a weighted graph over the nodes 0..3 may have; node 3 is the goal
ListEdges == <<<<0, 1>>, <<0, 2>>, <<1, 2>>, <<2, 1>>, <<1, 3>>, <<2, 3>>, <<0, 3>>>>

\* Costs of an edge; 0 stands for "no such edge"
ListCosts == {0, 1, 3}

\* The successor array of node n under the cost assignment c
EdgeList(c, n) ==
    LET from == SelectSeq([i \in DOMAIN ListEdges |-> i],
                          LAMBDA i : ListEdges[i][1] = n /\ c[i] > 0)
    IN  [j \in DOMAIN from |->
            [action |-> "e", child |-> ListEdges[from[j]][2], cost |-> c[from[j]]]]

ListProblems ==
    {[kind |-> "list", edges |-> [n \in 0..3 |-> EdgeList(c, n)],
      h |-> [n \in 0..3 |-> IF n = 3 THEN 0 ELSE hh[n]], goals |-> {3},
      start |-> 0, timeout |-> LongTimeout] :
        c \in [DOMAIN ListEdges -> ListCosts], hh \in [0..2 -> 0..2]}

\* The nodes of the graph of problem p
Nodes(p) ==
    CASE p.kind = "grid" -> (0..(p.xsize - 1)) \X (0..(p.ysize - 1))
      [] p.kind = "list" -> DOMAIN p.edges

\* h(u) <= cost(u, v) + h(v) on every edge, and h = 0 on goals (h is doubled)
Consistent(p) ==
    /\ \A u \in Nodes(p) : Goal(p, u) => Heuristics(p, u) = 0
    /\ \A u \in Nodes(p) : \A i \in DOMAIN Successors(p, u) :
          Heuristics(p, u) <= 2 * Successors(p, u)[i].cost
                              + Heuristics(p, Successors(p, u)[i].child)

PositiveCosts(p) ==
    \A u \in Nodes(p) : \A i \in DOMAIN Successors(p, u) : Successors(p, u)[i].cost > 0

\* The pairs <<node, cost>> such that some path from the start node reaches
\* node at that cost, for costs below limit: known holds those found so far
RECURSIVE Reach(_, _, _)
Reach(p, known, limit) ==
    LET more == {<<Successors(p, e[1])[i].child, e[2] + Successors(p, e[1])[i].cost>> :
                    <<e, i>> \in {<<e, i>> \in known \X (1..4) :
                                     /\ i \in DOMAIN Successors(p, e[1])
                                     /\ e[2] + Successors(p, e[1])[i].cost < limit}}
    IN  IF more \subseteq known THEN known ELSE Reach(p, known \cup more, limit)

\* Whether some path from the start node to a goal node costs less than limit
CheaperPath(p, limit) ==
    \E e \in Reach(p, IF limit > 0 THEN {<<p.start, 0>>} ELSE {}, limit) : Goal(p, e[1])

InitAStar ==
    /\ prob \in GridProblems \cup ListProblems
    /\ search = AStarStart(prob)
    /\ world0 = Idle /\ node = Idle /\ exec = Idle
    /\ last = [expanded |-> <<>>]

\* One round of the loop that ends as outcome; last.expanded lists the nodes
\* graph.successors has been called for, in the order of the calls
AStarStep(status) ==
    /\ search.status = "running"
    /\ search' = AStarIter(prob, search, Successors(prob, Current(prob, search)))
    /\ search'.status = status
    /\ last' = IF status = "running"
               THEN [expanded |-> Append(last.expanded, Key(prob, Current(prob, search)))]
               ELSE last
    /\ UNCHANGED <<prob, world0, node, exec>>

AStarExpand == AStarStep("running")

AStarSuccess == AStarStep("success")

AStarFailure == AStarStep("failure")

AStarDeadline == AStarStep("timeout")

NextAStar == AStarExpand \/ AStarSuccess \/ AStarFailure \/ AStarDeadline

SpecAStar == InitAStar /\ [][NextAStar]_vars

\* Whether edge is one of the successors of node n
IsSuccessor(p, n, edge) ==
    \E i \in DOMAIN Successors(p, n) : Successors(p, n)[i] = edge

RECURSIVE SumCosts(_)
SumCosts(path) == IF path = <<>> THEN 0 ELSE path[1].cost + SumCosts(Tail(path))

\* C6: when aStarSearch reports success, the path it returns does not contain
\* the start node, its first node is a successor of the start node, every
\* later node is a successor of the one before, its last node satisfies the
\* goal predicate, and the reported cost is the sum of the edge costs.
C6_PathWellFormed ==
    search.status = "success" =>
        /\ \A i \in DOMAIN search.path :
              /\ IsSuccessor(prob, IF i = 1 THEN prob.start ELSE search.path[i - 1].child,
                             search.path[i])
              /\ Key(prob, search.path[i].child) # Key(prob, prob.start)
        /\ IF search.path = <<>> THEN Goal(prob, prob.start)
           ELSE Goal(prob, Last(search.path).child)
        /\ search.cost = SumCosts(search.path)

\* A successful search whose path has several edges of different cost
C6_Witness ==
    /\ search.status = "success"
    /\ prob.kind = "list"
    /\ Len(search.path) = 3
    /\ search.cost = 5

\* C7: on a finite graph with positive edge costs and a consistent heuristic
\* (the zero heuristic, Manhattan distance on the grid), the cost of a
\* successful search is the least cost of any path from the start node to a
\* goal node, also when a node was first discovered through a more expensive
\* path and re-inserted later.
C7_Optimal ==
    (search.status = "success" /\ PositiveCosts(prob) /\ Consistent(prob)) =>
        ~CheaperPath(prob, search.cost)

\* A successful search with a consistent, non-zero heuristic in which a node
\* was re-inserted with a cheaper path cost
C7_Witness ==
    /\ search.status = "success"
    /\ search.reinserted
    /\ Consistent(prob) /\ PositiveCosts(prob)
    /\ Heuristics(prob, prob.start) > 0
    /\ search.cost = 3

\* C29: within one aStarSearch run no node is expanded more than once, also
\* when a cheaper path to a node of the frontier is found and the node is
\* inserted again while its older, more expensive entry is still queued
C29_ExpandedOnce ==
    \A i, j \in DOMAIN last.expanded : i # j => last.expanded[i] # last.expanded[j]

----------------------------------------------------------------------------
(* SpecLeaf: the low-level search of one leaf goal, one loop round per step, *)
(* followed by the executor performing the primitives found                 *)

\* Number of columns of the worlds the leaf searches start from
LeafStacks == 3

\* Identifiers placed in those worlds
LeafIds == {"a", "b", "e"}

\* The round budget that stands for the 10 second timeout in this specification
LeafTimeout == 30

Relations == {"holding", "inside", "ontop", "above", "under", "leftof", "rightof", "beside"}

\* The literals of every relation: holding over the identifiers ids and the
\* floor, the binary relations over the argument pairs
LiteralsOver(ids, pairs) ==
    {[relation |-> "holding", args |-> <<x>>, polarity |-> TRUE] : x \in ids \cup {"floor"}}
    \cup {[relation |-> r, args |-> xy, polarity |-> TRUE] :
             r \in Relations \ {"holding"}, xy \in pairs}

\* Argument pairs of the binary literals: the ball and the box, the box and
\* the table, the table and the floor
LeafPairs == {<<"a", "b">>, <<"b", "e">>, <<"e", "floor">>}

\* The arguments of the low-level search evaluateLowLevel runs for the goal
\* at position pos of the chain of literal, from the state of world w
LeafProblem(literal, side, pos, w) ==
    [kind |-> "low", start |-> fromWorld(w), world |-> w, timeout |-> LeafTimeout,
     chain |-> SubSeq(Chain(literal, side), 1, pos)]

LeafProblems(w) ==
    {pr \in UNION {{LeafProblem(literal, side, pos, w) :
                       pos \in 1..Len(Chain(literal, side))} :
                   <<literal, side>> \in LiteralsOver(LeafIds, LeafPairs) \X {0, 1, 2}} :
        /\ Last(pr.chain).cls \in LeafClasses
        /\ ~Goal(pr, pr.start)}

InitLeaf ==
    /\ world0 \in WorldsOver(LeafIds, LeafStacks)
    /\ prob \in LeafProblems(world0)
    /\ search = AStarStart(prob)
    /\ exec = TextWorld(world0)
    /\ last = [rest |-> <<>>]
    /\ node = fromWorld(world0)

LeafRound(status) ==
    /\ search.status = "running"
    /\ search' = AStarIter(prob, search, Successors(prob, Current(prob, search)))
    /\ search'.status = status
    /\ last' = [rest |-> [i \in DOMAIN search'.path |-> search'.path[i].action]]
    /\ node' = IF status = "success" THEN Last(search'.path).child ELSE node
    /\ UNCHANGED <<world0, prob, exec>>

LeafExpand == LeafRound("running")

\* The search returns its path; evaluateLowLevel keeps its last node and its actions
LeafSuccess == LeafRound("success")

LeafFailure == LeafRound("failure")

LeafDeadline == LeafRound("timeout")

\* performPlan: the executor performs the next primitive of the path
LeafPerform ==
    /\ search.status = "success"
    /\ last.rest # <<>>
    /\ ~exec.error
    /\ exec' = getAction(exec, Head(last.rest))
    /\ last' = [rest |-> Tail(last.rest)]
    /\ UNCHANGED <<world0, prob, search, node>>

NextLeaf == LeafExpand \/ LeafSuccess \/ LeafFailure \/ LeafDeadline \/ LeafPerform

SpecLeaf == InitLeaf /\ [][NextLeaf]_vars

\* The low-level nodes a search holds: those of its frontier and of the path
\* it returned
SearchNodes(st) ==
    {st.frontier.queue[i].node.child : i \in DOMAIN st.frontier.queue}
    \cup {st.path[i].child : i \in DOMAIN st.path}

\* C5: the identifier floor never appears in a stack or in the arm of any
\* low-level node of a leaf search (in its frontier, on the path it returns,
\* or kept as the state after it) nor of the executor's world while the path
\* is performed; this includes the searches for goals that name floor, such
\* as Holding(floor).
C5_NoFloor ==
    prob.kind = "low" =>
        /\ "floor" \notin Mentioned(node)
        /\ "floor" \notin Mentioned(exec)
        /\ \A n \in SearchNodes(search) : "floor" \notin Mentioned(n)

\* A search for a goal that names floor has succeeded with two primitives or
\* more and the executor has performed them all
C5_Witness ==
    /\ prob.kind = "low"
    /\ "floor" \in {Last(prob.chain).item} \cup
                    (IF "goal" \in DOMAIN Last(prob.chain) THEN {Last(prob.chain).goal} ELSE {})
    /\ search.status = "success"
    /\ Len(search.path) >= 2
    /\ last.rest = <<>>
    /\ ~exec.error
    /\ exec.stacks = node.stacks

\* A node without its id
Bare(n) == [n EXCEPT !.fresh = FALSE]

\* Breadth-first search over GraphLowLevel.successors: whether a node that
\* fulfils the goal lies fewer than limit steps from the nodes of layer,
\* which are depth steps from the start
RECURSIVE BreadthFirst(_, _, _, _, _)
BreadthFirst(p, layer, seen, depth, limit) ==
    IF depth >= limit \/ layer = {} THEN FALSE
    ELSE IF \E n \in layer : Goal(p, n) THEN TRUE
    ELSE LET next == UNION {{LowSuccessors(n)[i].child : i \in DOMAIN LowSuccessors(n)} :
                            n \in layer}
         IN  BreadthFirst(p, next \ seen, seen \cup next, depth + 1, limit)

\* Whether breadth-first search finds a primitive sequence shorter than limit
ShorterByBFS(p, limit) == BreadthFirst(p, {Bare(p.start)}, {Bare(p.start)}, 0, limit)

\* C8: for every leaf goal (Holding, ClearStack, OnStack, ClearOnStack,
\* SameStack, WidenStack) and every start state in which it is not fulfilled,
\* the primitive sequence its low-level search returns, guided by
\* 0.5 * own heuristic + 0.5 * heuristic up the tree, is no longer than the
\* shortest one breadth-first search finds over the same successors.
C8_LeafOptimal ==
    (prob.kind = "low" /\ search.status = "success") =>
        ~ShorterByBFS(prob, Len(search.path))

----------------------------------------------------------------------------
(* SpecPlan: plan() on one interpretation, one round of the high-level search
   per step, then the executor performing the returned plan token by token.
   last holds what the driver got from plan() and the tokens still to be
   performed. *)

\* Columns of the worlds plans are made for
PlanStacks == 3

\* The round budgets that stand for the 10 second timeout of the high-level
\* search on a slow and on a fast machine
PlanShortTimeout == 1

PlanLongTimeout == 40

\* search.path.map((node) => node.action.split(";")).reduce(concat, [])
RECURSIVE PlanTokens(_)
PlanTokens(path) ==
    IF path = <<>> THEN <<>> ELSE Head(path).action \o PlanTokens(Tail(path))

\* `Path with ${search.path.length} moves (${search.visited} visited nodes)`
PathSummary(st) ==
    "Path with " \o ToString(Len(st.path)) \o " moves ("
                 \o ToString(st.visited) \o " visited nodes)"

\* A plan() that raises a planning failure unless the search succeeded
planChecked(st) ==
    IF st.status # "success" THEN [stage |-> "failed", plan |-> <<>>]
    ELSE [stage |-> "planned", plan |-> Append(PlanTokens(st.path), PathSummary(st))]

\* plan() on the one interpretation whose search ended as st, and what
\* parseUtteranceIntoPlan makes of it: the plan, or null after a planning
\* failure when the search threw
plan(st) ==
    IF st.status = "thrown" THEN [stage |-> "failed", plan |-> <<>>]
    ELSE [stage |-> "planned", plan |-> Append(PlanTokens(st.path), PathSummary(st))]

Lit(relation, args) == [relation |-> relation, args |-> args]

\* The formulas plans are made for, as DNFFormula.parse reads them from a
\* "dnf ..." utterance
PlanFormulas ==
    {<<<<Lit("ontop", <<"e", "floor">>), Lit("ontop", <<"b", "e">>)>>>>,
     <<<<Lit("ontop", <<"e", "a">>)>>>>,
     <<<<Lit("inside", <<"a", "b">>)>>>>,
     <<<<Lit("holding", <<"e">>)>>>>,
     <<<<Lit("inside", <<"a", "b">>)>>, <<Lit("holding", <<"b">>)>>>>,
     <<<<Lit("rightof", <<"a", "e">>)>>>>,
     <<<<Lit("inside", <<"a", "b">>), Lit("ontop", <<"b", "e">>)>>>>}

\* The worlds plans are made for: the arm empty over column 0
PlanWorlds == {w \in WorldsOver(LeafIds, PlanStacks) : w.arm = 0 /\ w.holding = null}

PlanProblem(dnf, w, timeout) ==
    [kind |-> "high", dnf |-> dnf, world |-> w, timeout |-> timeout,
     start |-> [goalNode |-> DnfNode, nodeLowLevel |-> fromWorld(w), id |-> <<>>]]

InitPlan ==
    /\ world0 \in PlanWorlds
    /\ prob \in {PlanProblem(dnf, world0, timeout) :
                    dnf \in PlanFormulas, timeout \in {PlanShortTimeout, PlanLongTimeout}}
    /\ search = AStarStart(prob)
    /\ exec = TextWorld(world0)
    /\ last = [stage |-> "planning", plan |-> <<>>, rest |-> <<>>]
    /\ node = Idle

\* One round of the high-level search that ends as status; the round that
\* ends the search hands its result to plan() and the driver
PlanRound(status) ==
    /\ search.status = "running"
    /\ status \in (IF TimedOut(prob, search) THEN {"timeout"}
                   ELSE IF search.frontier.queue = <<>> THEN {"failure"}
                   ELSE IF Goal(prob, Current(prob, search)) THEN {"success"}
                   ELSE {"running", "thrown"})
    /\ search' = AStarIter(prob, search, HighSuccessors(prob, Current(prob, search)))
    /\ search'.status = status
    /\ last' = IF status = "running" THEN last
               ELSE [stage |-> plan(search').stage, plan |-> plan(search').plan,
                     rest |-> plan(search').plan]
    /\ UNCHANGED <<world0, prob, exec, node>>

PlanExpand == PlanRound("running")

PlanSuccess == PlanRound("success")

PlanFailure == PlanRound("failure")

PlanDeadline == PlanRound("timeout")

PlanThrown == PlanRound("thrown")

\* TextWorld.performPlan, one item per step: a primitive is performed,
\* anything else is printed
PlanPerform ==
    /\ last.stage = "planned"
    /\ last.rest # <<>>
    /\ ~exec.error
    /\ exec' = IF Head(last.rest) \in Range(Actions) THEN getAction(exec, Head(last.rest))
               ELSE exec
    /\ last' = [last EXCEPT !.rest = Tail(@)]
    /\ UNCHANGED <<world0, prob, search, node>>

NextPlan ==
    PlanExpand \/ PlanSuccess \/ PlanFailure \/ PlanDeadline \/ PlanThrown \/ PlanPerform

SpecPlan == InitPlan /\ [][NextPlan]_vars

\* C1: executing the tokens of a plan returned by plan(), in order and from
\* the world it was planned for, never raises an execution error
C1_PlanExecutes == last.stage = "planned" => ~exec.error

\* A successful plan with primitives, performed to its end
C1_Witness ==
    /\ last.stage = "planned"
    /\ search.status = "success"
    /\ last.rest = <<>>
    /\ \E i \in DOMAIN last.plan : last.plan[i] \in Range(Actions)
    /\ exec.stacks # world0.stacks

\* Interpreter.getStackId on the names of a world: the 0-based column of the
\* object, -1 standing for undefined
getStackId(x, name) ==
    IF \E c \in DOMAIN x.stacks : name \in Range(x.stacks[c])
    THEN (CHOOSE c \in DOMAIN x.stacks : name \in Range(x.stacks[c])) - 1
    ELSE -1

\* Interpreter.relationTesters, and the holding test of matchLocation, for the
\* literal's arguments in the world x
relationTester(literal, x) ==
    LET a == literal.args[1]
        b == literal.args[2]
        stackA == getStackId(x, a)
        stackB == getStackId(x, b)
        indexA == IndexOf(x.stacks[stackA + 1], a)
        indexB == IndexOf(x.stacks[stackA + 1], b)
    IN  CASE literal.relation = "holding" -> x.holding = a
          [] literal.relation = "leftof" -> stackA # -1 /\ stackB # -1 /\ stackA < stackB
          [] literal.relation = "rightof" -> stackA # -1 /\ stackB # -1 /\ stackA > stackB
          [] literal.relation = "beside" ->
                 stackA # -1 /\ stackB # -1 /\ (stackA - 1 = stackB \/ stackA = stackB - 1)
          [] literal.relation = "inside" ->
                 /\ stackA = stackB /\ stackA # -1
                 /\ indexA - 1 = indexB
                 /\ ObjectOf(b).form = "box"
          [] literal.relation = "ontop" ->
                 IF b = "floor" THEN stackA # -1 /\ indexA = 0
                 ELSE /\ stackA = stackB /\ stackA # -1
                      /\ indexA - 1 = indexB
                      /\ ObjectOf(b).form # "box"
          [] literal.relation = "under" -> stackA = stackB /\ stackA # -1 /\ indexA < indexB
          [] literal.relation = "above" ->
                 b = "floor" \/ (stackA = stackB /\ stackA # -1 /\ indexA > indexB)

\* The world x satisfies every literal of at least one conjunction of dnf
Satisfies(dnf, x) ==
    \E c \in DOMAIN dnf : \A l \in DOMAIN dnf[c] : relationTester(dnf[c][l], x)

\* C2: the world obtained by applying the primitives of a plan returned by
\* plan() to the initial world satisfies every literal of at least one
\* conjunction of the formula
C2_PlanSatisfies ==
    (last.stage = "planned" /\ last.rest = <<>>) => Satisfies(prob.dnf, exec)

\* C9: if the initial world already satisfies the formula, the plan returned
\* by plan() contains no primitive token, so executing it leaves the world
\* unchanged
C9_SatisfiedNoPrimitive ==
    (last.stage = "planned" /\ Satisfies(prob.dnf, TextWorld(world0))) =>
        /\ \A i \in DOMAIN last.plan : last.plan[i] \notin Range(Actions)
        /\ exec = TextWorld(world0)

\* A plan found by a successful search for a formula the world satisfies,
\* performed to its end
C9_Witness ==
    /\ last.stage = "planned"
    /\ search.status = "success"
    /\ Satisfies(prob.dnf, TextWorld(world0))
    /\ last.plan # <<>>
    /\ last.rest = <<>>

\* The number of primitive actions among the tokens of an action string
Primitives(tokens) == Len(SelectSeq(tokens, LAMBDA t : t \in Range(Actions)))

\* C36: the cost of every edge of a high-level path equals the number of
\* primitive actions in the edge's action string, and the cost of the path
\* equals the number of primitives in the plan made from it.
C36_CostCountsPrimitives ==
    (last.stage = "planned" /\ search.status = "success") =>
        /\ \A i \in DOMAIN search.path :
              search.path[i].cost = Primitives(search.path[i].action)
        /\ search.cost = Primitives(last.plan)

\* Whether the goals of all literals of some conjunction are fulfilled in state
SomeConjunctionFulfilled(state) ==
    \E c \in DOMAIN prob.dnf :
        \A l \in DOMAIN prob.dnf[c] :
            isFulfilled(prob.dnf, LiteralNode(prob.dnf, c, l), state, prob.world)

\* The search nodes of the frontier whose goal cursor is the Final node
FinalEntries ==
    {sn \in {search.frontier.queue[i] : i \in DOMAIN search.frontier.queue} :
        sn.node.child.goalNode = FinalNode}

\* C37: a high-level node whose goal cursor is the Final node is generated
\* only from a state in which the goals of all literals of at least one
\* conjunction are fulfilled, and its snapshot is that same state; the
\* high-level search reports success only with such a node dequeued last.
C37_FinalOnlyWhenFulfilled ==
    /\ \A sn \in FinalEntries :
          /\ sn.previous # NoPrevious
          /\ SomeConjunctionFulfilled(sn.previous.node.child.nodeLowLevel)
          /\ sn.node.child.nodeLowLevel = sn.previous.node.child.nodeLowLevel
    /\ search.status = "success" =>
          /\ search.path # <<>>
          /\ Last(search.path).child.goalNode = FinalNode
          /\ SomeConjunctionFulfilled(Last(search.path).child.nodeLowLevel)
          /\ Last(search.path).child.nodeLowLevel =
                 IF Len(search.path) = 1 THEN prob.start.nodeLowLevel
                 ELSE search.path[Len(search.path) - 1].child.nodeLowLevel

\* A search that succeeded at a Final node reached after objects were moved
C37_Witness ==
    /\ search.status = "success"
    /\ Len(search.path) > 1
    /\ Last(search.path).child.goalNode = FinalNode
    /\ Last(search.path).child.nodeLowLevel.stacks # world0.stacks
    /\ ~SomeConjunctionFulfilled(prob.start.nodeLowLevel)

\* Whether goal node g lies in the chain of a MoveOnTopGoal
InMoveOnTop(g) == g.t = "Chain" /\ ChainOf(prob.dnf, g)[1].cls = "MoveOnTop"

\* The search nodes of the frontier other than the start node
Generated ==
    {sn \in {search.frontier.queue[i] : i \in DOMAIN search.frontier.queue} :
        sn.previous # NoPrevious}

\* C38: for a MoveOnTop(item, goal) goal the chain is ClearStack(goal),
\* PickUp(item), ClearStack(item), Holding(item), SameStack(item, ontop,
\* goal); on every high-level path an element of the chain is evaluated
\* right after the element before it, the first one after the MoveOnTop goal
\* itself, which is entered from the conjunction or from the end of a
\* sibling's chain; and a path leaves the chain only after SameStack.
C38_ChainInOrder ==
    \A sn \in Generated :
        LET g == sn.node.child.goalNode
            from == sn.previous.node.child.goalNode
        IN  /\ InMoveOnTop(g) =>
                 /\ LET literal == prob.dnf[g.c][g.l]
                        item == literal.args[1]
                        goal == literal.args[2]
                    IN  ChainOf(prob.dnf, g) =
                            <<[cls |-> "MoveOnTop", item |-> item, goal |-> goal],
                              [cls |-> "ClearStack", item |-> goal],
                              [cls |-> "PickUp", item |-> item],
                              [cls |-> "ClearStack", item |-> item],
                              [cls |-> "Holding", item |-> item],
                              [cls |-> "SameStack", item |-> item, goal |-> goal,
                               relation |-> "ontop"]>>
                 /\ g.pos > 1 => from = ChainNode(g.c, g.l, g.side, g.pos - 1)
                 /\ g.pos = 1 =>
                       \/ from = ConjunctionNode(g.c)
                       \/ /\ from.t = "Chain" /\ from.c = g.c
                          /\ from.pos = Len(ChainOf(prob.dnf, from))
            /\ (InMoveOnTop(from) /\ from.pos < Len(ChainOf(prob.dnf, from))) =>
                    g = ChainNode(from.c, from.l, from.side, from.pos + 1)

\* The SameStack goal of a chain evaluated by a search, after the objects
\* were moved by the elements before it
C38_Witness ==
    \E sn \in Generated :
        /\ InMoveOnTop(sn.node.child.goalNode)
        /\ sn.node.child.goalNode.pos = 6
        /\ Primitives(sn.node.action) > 0
        /\ sn.previous.node.child.nodeLowLevel.holding # null

\* C13: if the high-level search ends with status failure or timeout for
\* every interpretation, plan() raises a planning failure, so that
\* parseUtteranceIntoPlan returns no plan, nothing is executed and the world
\* is unchanged.
C13_FailureRaised ==
    search.status \in {"failure", "timeout"} =>
        /\ last.stage = "failed"
        /\ last.plan = <<>>
        /\ exec = TextWorld(world0)

\* The column of the world x that holds the object, 0 when none does
ColumnOf(x, object) ==
    IF \E c \in DOMAIN x.stacks : object \in Range(x.stacks[c])
    THEN CHOOSE c \in DOMAIN x.stacks : object \in Range(x.stacks[c])
    ELSE 0

\* The index of the object in its column of x, from 0
HeightOf(x, object) ==
    (CHOOSE i \in DOMAIN x.stacks[ColumnOf(x, object)] :
        x.stacks[ColumnOf(x, object)][i] = object) - 1

\* C14: for the direct formula ontop(a,floor) & ontop(b,a) with canPlace(b, a)
\* true (here: the table e on the floor, the box b on the table), from every
\* legal initial arrangement, also one without an empty column, the planner
\* returns a plan after whose execution a is at index 0 of its stack and b is
\* immediately above a.
C14_StackOnFloor ==
    (/\ prob.dnf = <<<<Lit("ontop", <<"e", "floor">>), Lit("ontop", <<"b", "e">>)>>>>
     /\ search.status \notin {"running", "timeout"}) =>
        /\ last.stage = "planned"
        /\ last.rest = <<>> =>
              /\ ~exec.error
              /\ ColumnOf(exec, "e") # 0 /\ ColumnOf(exec, "b") = ColumnOf(exec, "e")
              /\ HeightOf(exec, "e") = 0 /\ HeightOf(exec, "b") = 1

----------------------------------------------------------------------------
(* SpecSearch: aStarSearch of AStarSearch.ts, on the grids and the weighted
   graphs of SpecAStar *)

\* The graph under search
GraphSuccessors(p, n) == IF p.kind = "grid" THEN GridSuccessors(p, n) ELSE ListSuccessors(p, n)

\* ReconstructPathFromSearchNode
ReconstructPathFromSearchNode(searchNode) == Tail(LinkedPath(searchNode))

\* The state of the call after frontier and visited received the start node;
\* nulls names the fields of the SearchResult that are null
SearchStart(p) ==
    [status   |-> "running",
     frontier |-> queueAdd(<<>>, SearchNode(0, 0, [child |-> p.start, action |-> null, cost |-> 0],
                                            NoPrevious)),
     visited  |-> {Key(p, p.start)},
     clock    |-> 0,
     path     |-> <<>>,
     cost     |-> 0,
     nulls    |-> {}]

\* The loop "add them to visited and frontier", from successor i on
RECURSIVE AddSuccessors(_, _, _, _, _)
AddSuccessors(p, frontier, currentNode, successors, i) ==
    IF i > Len(successors) THEN frontier
    ELSE AddSuccessors(p,
                       queueAdd(frontier, SearchNode(currentNode.pathCost + successors[i].cost,
                                                     Heuristics(p, successors[i].child),
                                                     successors[i], currentNode)),
                       currentNode, successors, i + 1)

\* The body of the while loop once currentNode is dequeued and is no goal
SearchExpandNode(p, st, currentNode, successors) ==
    [st EXCEPT !.frontier = AddSuccessors(p, queueRemoveRoot(st.frontier), currentNode,
                                          successors, 1),
               !.visited = @ \cup {Key(p, successors[i].child) : i \in DOMAIN successors},
               !.clock = @ + 1]

\* One round of the while loop of aStarSearch, or its exit
SearchRound(p, st) ==
    IF st.frontier = <<>>
    THEN [st EXCEPT !.status = "failure", !.nulls = {"path", "cost"}]
    ELSE IF TimedOut(p, st)
    THEN [st EXCEPT !.status = "timeout", !.path = <<>>, !.cost = -1]
    ELSE IF Goal(p, st.frontier[1].node.child)
    THEN [st EXCEPT !.status = "success",
                    !.frontier = queueRemoveRoot(st.frontier),
                    !.path = ReconstructPathFromSearchNode(st.frontier[1]),
                    !.cost = st.frontier[1].pathCost]
    ELSE SearchExpandNode(p, st, st.frontier[1],
                          SelectSeq(GraphSuccessors(p, st.frontier[1].node.child),
                                    LAMBDA value : Key(p, value.child) \notin st.visited))

InitSearch ==
    /\ prob \in GridProblems \cup ListProblems
    /\ search = SearchStart(prob)
    /\ world0 = Idle /\ node = Idle /\ exec = Idle /\ last = Idle

\* One round of the loop that ends as status
SearchStep(status) ==
    /\ search.status = "running"
    /\ search' = SearchRound(prob, search)
    /\ search'.status = status
    /\ UNCHANGED <<prob, world0, node, exec, last>>

SearchExpand == SearchStep("running")

SearchSuccess == SearchStep("success")

SearchFailure == SearchStep("failure")

SearchDeadline == SearchStep("timeout")

NextSearch == SearchExpand \/ SearchSuccess \/ SearchFailure \/ SearchDeadline

SpecSearch == InitSearch /\ [][NextSearch]_vars

\* C20: aStarSearch returns failure exactly when the frontier has become
\* empty without a goal node having been dequeued, and timeout when the
\* deadline passed first; in both cases the returned path is the empty list
\* and the returned cost is negative.
C20_FailureResult ==
    /\ search.status = "failure" => search.frontier = <<>>
    /\ search.status = "timeout" => TimedOut(prob, search)
    /\ search.status \in {"failure", "timeout"} =>
          /\ search.nulls = {}
          /\ search.path = <<>>
          /\ search.cost < 0

----------------------------------------------------------------------------
(* SpecRules: the physical rules, asked of every pair of objects *)

\* Interpreter.floor: new SimpleObject("floor", null, null)
floor == [form |-> "floor", size |-> null, color |-> null]

\* Interpreter.getObject
getObject(name, objects) == IF name = "floor" THEN floor ELSE objects[name]

\* An isLiteralValid whose ontop rule lets a ball rest on any object
isLiteralValidBallAnywhere(literal, objects) ==
    IF Len(literal.args) > 0 /\ literal.args[1] = "floor" THEN FALSE
    ELSE IF literal.relation = "holding" THEN TRUE
    ELSE IF Len(literal.args) # 2 THEN FALSE
    ELSE LET objectA == getObject(literal.args[1], objects)
             objectB == getObject(literal.args[2], objects)
         IN  CASE literal.relation = "inside" ->
                    /\ objectB.form = "box"
                    /\ ~(objectA.size = "large" /\ objectB.size = "small")
                    /\ ~(/\ objectA.form \in {"pyramid", "plank", "box"}
                         /\ (objectB.size = "small" \/ objectA.size = "large"))
               [] literal.relation = "ontop" ->
                    /\ objectB.form \notin {"box", "ball"}
                    /\ ~(objectA.size = "large" /\ objectB.size = "small")
               [] OTHER -> TRUE

\* Interpreter.isLiteralValid; objects is world.objects
isLiteralValid(literal, objects) ==
    IF Len(literal.args) > 0 /\ literal.args[1] = "floor" THEN FALSE
    ELSE IF literal.relation \in {"holding", "at any location"} THEN TRUE
    ELSE IF Len(literal.args) # 2 THEN FALSE
    ELSE LET objectA == getObject(literal.args[1], objects)
             objectB == getObject(literal.args[2], objects)
         IN  CASE literal.relation \in {"leftof", "rightof", "beside"} -> TRUE
               [] literal.relation = "inside" ->
                    IF objectB.form # "box" THEN FALSE
                    ELSE IF objectA.size = "large" /\ objectB.size = "small" THEN FALSE
                    ELSE IF /\ objectA.form \in {"pyramid", "plank", "box"}
                            /\ (objectB.size = "small" \/ objectA.size = "large") THEN FALSE
                    ELSE TRUE
               [] literal.relation = "ontop" ->
                    IF objectB.form \in {"box", "ball"} THEN FALSE
                    ELSE IF objectA.form = "ball" /\ objectB # floor THEN FALSE
                    ELSE IF objectA.size = "large" /\ objectB.size = "small" THEN FALSE
                    ELSE IF /\ objectA.form = "box" /\ objectA.size = "small"
                            /\ objectB.form \in {"brick", "pyramid"} /\ objectB.size = "small"
                    THEN FALSE
                    ELSE IF objectA.form = "box" /\ objectA.size = "large"
                            /\ objectB.form = "pyramid" THEN FALSE
                    ELSE TRUE
               [] literal.relation = "under" ->
                    IF objectA.form = "ball" THEN FALSE
                    ELSE IF objectA.size = "small" /\ objectB.size = "large" THEN FALSE
                    ELSE TRUE
               [] literal.relation = "above" -> objectB.form # "ball"

\* The forms and sizes an object of a world can have
Forms == {"brick", "plank", "ball", "pyramid", "box", "table"}

Sizes == {"small", "large"}

AllObjects == [form : Forms, size : Sizes]

\* A question: the object x to place and what it is placed on, an object y
\* or the floor
InitRules ==
    /\ prob \in [kind : {"rules"}, x : AllObjects, on : {"y", "floor"}, y : AllObjects]
    /\ search = [status |-> "asked"]
    /\ world0 = Idle /\ node = Idle /\ exec = Idle /\ last = Idle

\* The planner's drop test and the interpreter's tests of inside and ontop
AskRules ==
    /\ search.status = "asked"
    /\ search' = [status |-> "answered",
                  canPlace |-> canPlace(prob.x, IF prob.on = "floor" THEN undefined ELSE prob.y),
                  inside |-> isLiteralValid([relation |-> "inside", args |-> <<"x", prob.on>>],
                                            [x |-> prob.x, y |-> prob.y]),
                  ontop |-> isLiteralValid([relation |-> "ontop", args |-> <<"x", prob.on>>],
                                           [x |-> prob.x, y |-> prob.y])]
    /\ UNCHANGED <<prob, world0, node, exec, last>>

NextRules == AskRules

SpecRules == InitRules /\ [][NextRules]_vars

\* C11: canPlace(a, b) is false exactly when b is a ball; or b is a box and
\* (a is large and b small, or a is a pyramid, plank or box and not (b is
\* large and a is small)); or b is neither box nor ball and (a is large and
\* b small, or a is a ball, or a is a small box and b a small brick or small
\* pyramid, or a is a large box and b a pyramid); onto the floor it is true.
C11_CanPlaceTable ==
    search.status = "answered" =>
        LET a == prob.x
            b == prob.y
            large(o) == o.size = "large"
            small(o) == o.size = "small"
            refused ==
                \/ b.form = "ball"
                \/ /\ b.form = "box"
                   /\ \/ large(a) /\ small(b)
                      \/ a.form \in {"pyramid", "plank", "box"} /\ ~(large(b) /\ small(a))
                \/ /\ b.form \notin {"box", "ball"}
                   /\ \/ large(a) /\ small(b)
                      \/ a.form = "ball"
                      \/ a.form = "box" /\ small(a) /\ b.form \in {"brick", "pyramid"} /\ small(b)
                      \/ a.form = "box" /\ large(a) /\ b.form = "pyramid"
        IN  search.canPlace = (IF prob.on = "floor" THEN TRUE ELSE ~refused)

\* A large box has been asked to take a large ball, and does
C11_Witness ==
    /\ search.status = "answered"
    /\ prob.on = "y"
    /\ prob.x = [form |-> "ball", size |-> "large"]
    /\ prob.y = [form |-> "box", size |-> "large"]
    /\ search.canPlace

\* C12: the interpreter's literal validity and the planner's drop legality
\* agree: canPlace(a, b) holds iff inside(a, b) is valid when b is a box and
\* iff ontop(a, b) is valid when b is not a box, and ontop(a, floor) is
\* valid for every a, as canPlace onto an empty column is.
C12_SameRule ==
    search.status = "answered" =>
        IF prob.on = "floor" THEN search.ontop /\ search.canPlace
        ELSE IF prob.y.form = "box" THEN search.canPlace = search.inside
        ELSE search.canPlace = search.ontop

\* A small ball has been asked onto a large table: neither rule allows it
C12_Witness ==
    /\ search.status = "answered"
    /\ prob.on = "y"
    /\ prob.x = [form |-> "ball", size |-> "small"]
    /\ prob.y = [form |-> "table", size |-> "large"]
    /\ ~search.canPlace /\ ~search.ontop

----------------------------------------------------------------------------
(* The interpreter.  Parse results are records: a SimpleObject filter is
   [form, size, color], an Entity [quantifier, object], a command
   [cmd, entity] or [cmd, entity, location] or [cmd, location].  A world w is
   [names, objects, stacks, holding, arm]: names lists the keys of
   world.objects in their order.  A world object is known by its name, the
   floor by "floor".  What the code throws is returned as an outcome, with
   the clarification queue and the entity cache as the throw leaves them. *)

\* Interpreter.getSimpleObjects
getSimpleObjects(w) == w.names \o <<"floor">>

\* Interpreter.matchObject for a SimpleObject filter
matchObject(filter, name, w) ==
    LET object == getObject(name, w.objects)
    IN  /\ ~(filter.form # "anyform" /\ object.form # filter.form)
        /\ ~(filter.color # null /\ object.color # filter.color)
        /\ ~(filter.size # null /\ object.size # filter.size)

\* Interpreter.getObjects
getObjects(filter, w) == SelectSeq(getSimpleObjects(w), LAMBDA name : matchObject(filter, name, w))

\* The while loop of resolveAmbiguity: each round splices the first
\* clarification off the queue it was handed and filters by it
RECURSIVE narrow(_, _, _)
narrow(objects, clarifications, w) ==
    IF Len(objects) > 1 /\ Len(clarifications) > 0
    THEN narrow(SelectSeq(objects, LAMBDA name :
                    \E i \in DOMAIN Head(clarifications) :
                        matchObject(Head(clarifications)[i].entity.object, name, w)),
                Tail(clarifications), w)
    ELSE [objects |-> objects, clarifications |-> clarifications]

\* A resolver that settles for the first object left
resolveAmbiguityFirst(objects, clarifications, w) ==
    LET result(n) ==
            IF Len(n.objects) = 0
            THEN [outcome |-> "error", message |-> "No objects to choose from",
                  clarifications |-> n.clarifications]
            ELSE [outcome |-> "ok", object |-> n.objects[1], clarifications |-> n.clarifications]
    IN  result(narrow(objects, clarifications, w))

\* Interpreter.resolveAmbiguity; the question of an AmbiguityError is kept as
\* the objects it lists
resolveAmbiguity(objects, clarifications, w) ==
    LET result(n) ==
            IF Len(n.objects) = 0
            THEN [outcome |-> "error", message |-> "No objects to choose from",
                  clarifications |-> n.clarifications]
            ELSE IF Len(n.objects) = 1
            THEN [outcome |-> "ok", object |-> n.objects[1], clarifications |-> n.clarifications]
            ELSE [outcome |-> "ambiguity", message |-> n.objects,
                  clarifications |-> n.clarifications]
    IN  result(narrow(objects, clarifications, w))

\* Interpreter.interpretEntity
interpretEntity(ent, clarifications, w) ==
    CASE ent.quantifier = "any" ->
            [outcome |-> "ok", junction |-> "Disjunction",
             objects |-> getObjects(ent.object, w), clarifications |-> clarifications]
      [] ent.quantifier = "all" ->
            [outcome |-> "ok", junction |-> "Conjunction",
             objects |-> getObjects(ent.object, w), clarifications |-> clarifications]
      [] ent.quantifier = "the" ->
            LET semantics(r) ==
                    IF r.outcome = "ok"
                    THEN [outcome |-> "ok", junction |-> "Conjunction",
                          objects |-> <<r.object>>, clarifications |-> r.clarifications]
                    ELSE r
            IN  semantics(resolveAmbiguity(getObjects(ent.object, w), clarifications, w))

\* Interpreter.interpretEntityCached: the result carries the cache it leaves
interpretEntityCached(ent, clarifications, cache, w) ==
    IF HasKey(cache, ent)
    THEN [outcome |-> "ok", junction |-> GetValue(cache, ent).junction,
          objects |-> GetValue(cache, ent).objects,
          clarifications |-> clarifications, cache |-> cache]
    ELSE LET cached(r) ==
                 IF r.outcome = "ok"
                 THEN [outcome |-> "ok", junction |-> r.junction, objects |-> r.objects,
                       clarifications |-> r.clarifications,
                       cache |-> SetValue(cache, ent, [junction |-> r.junction,
                                                       objects |-> r.objects])]
                 ELSE [outcome |-> r.outcome, message |-> r.message,
                       clarifications |-> r.clarifications, cache |-> cache]
         IN  cached(interpretEntity(ent, clarifications, w))

Literal(relation, args) == [relation |-> relation, args |-> args]

\* A take that asks for every object of a conjunction at once
TakeFormulaAllAtOnce(entity, w) ==
    LET valid == SelectSeq(entity.objects, LAMBDA name :
                     isLiteralValid(Literal("holding", <<name>>), w.objects))
    IN  [i \in DOMAIN valid |-> <<Literal("holding", <<valid[i]>>)>>]

\* The TakeCommand branch of interpretCommandInternal, the entity interpreted
TakeFormula(entity, w) ==
    IF entity.junction = "Conjunction" /\ Len(entity.objects) > 1 THEN <<>>
    ELSE LET valid == SelectSeq(entity.objects, LAMBDA name :
                          isLiteralValid(Literal("holding", <<name>>), w.objects))
         IN  [i \in DOMAIN valid |-> <<Literal("holding", <<valid[i]>>)>>]

\* The pairs of an object and a constraint, the objects in the outer loop
Pairs(objects, constraints) ==
    [p \in 1..(Len(objects) * Len(constraints)) |->
        <<objects[((p - 1) \div Len(constraints)) + 1],
          constraints[((p - 1) % Len(constraints)) + 1]>>]

\* A move that takes every combination, valid or not
MoveFormulaUnchecked(entity, location, w) ==
    LET pairs == Pairs(entity.objects, location.entity.objects)
    IN  [p \in DOMAIN pairs |-> <<Literal(location.relation, <<pairs[p][1], pairs[p][2]>>)>>]

\* A move that sends all objects of the entity to one and the same place
MoveFormulaSamePlace(entity, location, w) ==
    LET conjunction(c) ==
            [j \in DOMAIN entity.objects |->
                Literal(location.relation, <<entity.objects[j], c>>)]
        places == location.entity.objects
    IN  SelectSeq([c \in DOMAIN places |-> conjunction(places[c])],
                  LAMBDA conjunction_ :
                      /\ Len(conjunction_) > 0
                      /\ \A i \in DOMAIN conjunction_ :
                            isLiteralValid(conjunction_[i], w.objects))

\* The MoveCommand branch of interpretCommandInternal, entity and location
\* interpreted
MoveFormula(entity, location, w) ==
    LET objects == entity.objects
        constraints == location.entity.objects
        k == Len(objects)
        n == Len(constraints)
        lit(o, c) == Literal(location.relation, <<o, c>>)
        valid(literal) == isLiteralValid(literal, w.objects)
        keep(conjunction) ==
            Len(conjunction) > 0 /\ \A i \in DOMAIN conjunction : valid(conjunction[i])
        pairs == Pairs(objects, constraints)
        literals == SelectSeq([p \in DOMAIN pairs |-> lit(pairs[p][1], pairs[p][2])], valid)
        row(o) == [c \in 1..n |-> lit(o, constraints[c])]
        totalCount == IF k = 0 THEN 1 ELSE n ^ k
        \* counter[j] of round i: the last object's counter runs fastest
        counter(i, j) == (i \div (n ^ (k - j))) % n
        round(i) == [j \in 1..k |-> lit(objects[j], constraints[counter(i, j) + 1])]
    IN  IF location.entity.junction = "Conjunction"
        THEN IF entity.junction = "Conjunction"
             THEN <<literals>>
             ELSE SelectSeq([o \in 1..k |-> row(objects[o])], keep)
        ELSE IF entity.junction = "Conjunction"
             THEN SelectSeq([i \in 1..totalCount |-> round(i - 1)], keep)
             ELSE [i \in DOMAIN literals |-> <<literals[i]>>]

\* The DropCommand branch of interpretCommandInternal for a held object, the
\* location interpreted
DropFormula(location, w) ==
    LET constraints == location.entity.objects
        literals ==
            SelectSeq([c \in DOMAIN constraints |->
                          Literal(location.relation, <<w.holding, constraints[c]>>)],
                      LAMBDA literal : isLiteralValid(literal, w.objects))
    IN  IF location.entity.junction = "Conjunction"
        THEN <<literals>>
        ELSE [i \in DOMAIN literals |-> <<literals[i]>>]

\* Interpreter.interpretCommandInternal; interpretLocation is
\* interpretEntityCached on the location's entity
interpretCommandInternal(cmd, clarifications, cache, w) ==
    LET formula(r, conjuncts) ==
            [outcome |-> "ok", conjuncts |-> conjuncts,
             clarifications |-> r.clarifications, cache |-> r.cache]
        semantics(r) ==
            [relation |-> cmd.location.relation,
             entity |-> [junction |-> r.junction, objects |-> r.objects]]
        take(entity) ==
            IF entity.outcome = "ok" THEN formula(entity, TakeFormula(entity, w)) ELSE entity
        moveTo(entity, location) ==
            IF location.outcome = "ok"
            THEN formula(location, MoveFormula(entity, semantics(location), w))
            ELSE location
        move(entity) ==
            IF entity.outcome = "ok"
            THEN moveTo(entity, interpretEntityCached(cmd.location.entity,
                                    entity.clarifications, entity.cache, w))
            ELSE entity
        dropAt(location) ==
            IF location.outcome = "ok"
            THEN formula(location, DropFormula(semantics(location), w))
            ELSE location
    IN  CASE cmd.cmd = "move" ->
                move(interpretEntityCached(cmd.entity, clarifications, cache, w))
          [] cmd.cmd = "take" ->
                take(interpretEntityCached(cmd.entity, clarifications, cache, w))
          [] cmd.cmd = "drop" ->
                IF w.holding = null
                THEN [outcome |-> "ok", conjuncts |-> <<>>,
                      clarifications |-> clarifications, cache |-> cache]
                ELSE dropAt(interpretEntityCached(cmd.location.entity,
                                clarifications, cache, w))
          [] OTHER ->
                [outcome |-> "error", message |-> "Unknown command",
                 clarifications |-> clarifications, cache |-> cache]

\* Interpreter.interpretCommand
interpretCommand(cmd, clarifications, cache, w) ==
    LET keep(literal) == Len(literal.args) # 2 \/ literal.args[1] # literal.args[2]
        filtered(conjuncts) ==
            SelectSeq([c \in DOMAIN conjuncts |-> SelectSeq(conjuncts[c], keep)],
                      LAMBDA conjunction : Len(conjunction) > 0)
        finish(r, conjuncts) ==
            IF Len(conjuncts) = 0
            THEN [outcome |-> "error", message |-> "Can not interpret command",
                  clarifications |-> r.clarifications, cache |-> {}]
            ELSE [outcome |-> "ok", conjuncts |-> conjuncts,
                  clarifications |-> r.clarifications, cache |-> {}]
        result(r) == IF r.outcome = "ok" THEN finish(r, filtered(r.conjuncts)) ELSE r
    IN  result(interpretCommandInternal(cmd, clarifications, cache, w))

\* The first loop of interpret, from parse i on: every parse is tried with
\* no clarifications; acc holds possibleParses and the entity cache
RECURSIVE tryParses(_, _, _, _)
tryParses(parses, i, acc, w) ==
    IF i > Len(parses) THEN acc
    ELSE LET tried(r) ==
                 [possibleParses |-> IF r.outcome \in {"ok", "ambiguity"}
                                     THEN Append(acc.possibleParses, parses[i])
                                     ELSE acc.possibleParses,
                  cache |-> r.cache]
         IN  tryParses(parses, i + 1,
                       tried(interpretCommand(parses[i], <<>>, acc.cache, w)), w)

\* GetSimple
RECURSIVE GetSimple(_)
GetSimple(object) ==
    IF "location" \in DOMAIN object THEN GetSimple(object.object) ELSE object

\* isObjectMatch for a SimpleObject filter
isObjectMatch(filter, object) ==
    /\ ~(filter.form # "anyform" /\ GetSimple(object).form # filter.form)
    /\ ~(filter.color # null /\ GetSimple(object).color # filter.color)
    /\ ~(filter.size # null /\ GetSimple(object).size # filter.size)

\* The entity resolveParseAmbiguities tells a parse by
ambiguousObject(parse) ==
    IF parse.cmd = "drop"
    THEN [quantifier |-> "the", object |-> [form |-> "anyform", size |-> null, color |-> null]]
    ELSE parse.entity

\* The while loop of resolveParseAmbiguities, on its copy of the queue
RECURSIVE narrowParses(_, _)
narrowParses(parses, clarifications) ==
    IF Len(parses) > 1 /\ Len(clarifications) > 0
    THEN narrowParses(SelectSeq(parses, LAMBDA parse :
                          \E i \in DOMAIN Head(clarifications) :
                              isObjectMatch(Head(clarifications)[i].entity.object,
                                            ambiguousObject(parse).object)),
                      Tail(clarifications))
    ELSE parses

\* A resolver of parses that settles for the first parse left
resolveParseAmbiguitiesFirst(possibleParses, clarifications) ==
    LET result(parses) ==
            IF Len(parses) = 0
            THEN [outcome |-> "error", message |-> "No interpretation matches your clarifications."]
            ELSE [outcome |-> "ok", parse |-> parses[1]]
    IN  result(narrowParses(possibleParses, clarifications))

\* resolveParseAmbiguities
resolveParseAmbiguities(possibleParses, clarifications) ==
    LET result(parses) ==
            IF Len(parses) = 0
            THEN [outcome |-> "error", message |-> "No interpretation matches your clarifications."]
            ELSE IF Len(parses) <= 1 THEN [outcome |-> "ok", parse |-> parses[1]]
            ELSE [outcome |-> "ambiguity", message |-> parses]
    IN  result(narrowParses(possibleParses, clarifications))

\* interpret; clarifications is the caller's queue, which the last
\* interpretCommand splices
interpret(parses, clarifications, cache, w) ==
    LET run(r) ==
            IF r.outcome = "ok"
            THEN [outcome |-> "ok", interpretations |-> <<r.conjuncts>>,
                  clarifications |-> r.clarifications, cache |-> r.cache]
            ELSE r
        resolved(first, chosen) ==
            IF chosen.outcome = "ok"
            THEN run(interpretCommand(chosen.parse, clarifications, first.cache, w))
            ELSE [outcome |-> chosen.outcome, message |-> chosen.message,
                  clarifications |-> clarifications, cache |-> first.cache]
        possible(first) ==
            IF Len(first.possibleParses) = 0
            THEN [outcome |-> "error", message |-> "errors",
                  clarifications |-> clarifications, cache |-> first.cache]
            ELSE resolved(first, resolveParseAmbiguities(first.possibleParses, clarifications))
    IN  possible(tryParses(parses, 1, [possibleParses |-> <<>>, cache |-> cache], w))

----------------------------------------------------------------------------
(* SpecDialog: the driver, one utterance per step.  prob holds the module
   state of the driver (Command, <<>> while undefined since parse never
   returns an empty list; Clarifications) and the interpreter's static
   entityCache; search holds what the call returned; last remembers the
   command the user is being asked about and every reply typed since. *)

IsClarification(parses) == \E i \in DOMAIN parses : parses[i].cmd = "clarification"

\* What parseUtteranceIntoPlan returns without a plan: null after an error
\* was printed
Null(error) == [kind |-> "null", error |-> error]

\* A driver that queues a clarification before it refuses it
expectInstructionQueued(d, parses) ==
    [driver |-> [d EXCEPT !.Clarifications = Append(@, parses)],
     returned |-> Null("Expected an instruction, please enter a command.")]

\* The clarification typed while Command is undefined
expectInstruction(d, parses) ==
    [driver |-> d, returned |-> Null("Expected an instruction, please enter a command.")]

\* The rest of parseUtteranceIntoPlan once interpret has returned or thrown;
\* the interpretations go on to plan()
interpreted(d, r) ==
    CASE r.outcome = "ok" ->
            [driver |-> [d EXCEPT !.Command = <<>>, !.Clarifications = <<>>,
                                  !.entityCache = r.cache],
             returned |-> [kind |-> "interpretations", value |-> r.interpretations]]
      [] r.outcome = "ambiguity" ->
            [driver |-> [d EXCEPT !.Clarifications = r.clarifications, !.entityCache = r.cache],
             returned |-> [kind |-> "question", message |-> r.message]]
      [] r.outcome = "error" ->
            [driver |-> [d EXCEPT !.Clarifications = r.clarifications, !.entityCache = r.cache],
             returned |-> Null("[Interpretation failure]")]

\* parseUtteranceIntoPlan up to the planner, for an utterance that is no dnf
\* formula; parses is what parse returns, <<>> when it throws
parseUtteranceIntoPlan(d, parses, w) ==
    LET interpreting(d1) ==
            interpreted(d1, interpret(d1.Command, d1.Clarifications, d1.entityCache, w))
    IN  IF parses = <<>> THEN [driver |-> d, returned |-> Null("[Parsing failure]")]
        ELSE IF IsClarification(parses) /\ d.Command = <<>> THEN expectInstruction(d, parses)
        ELSE interpreting(IF IsClarification(parses)
                          THEN [d EXCEPT !.Clarifications = Append(@, parses)]
                          ELSE [d EXCEPT !.Command = parses, !.Clarifications = <<>>])

\* The longest run of clarification replies to one command
MaxReplies == 3

SimpleObject(form, size, color) == [form |-> form, size |-> size, color |-> color]

Entity(quantifier, object) == [quantifier |-> quantifier, object |-> object]

\* Three balls, one of them in a box
DialogWorld ==
    [names |-> <<"x", "y", "z", "u">>,
     objects |-> [x |-> SimpleObject("ball", "large", "white"),
                  y |-> SimpleObject("ball", "small", "white"),
                  z |-> SimpleObject("ball", "large", "black"),
                  u |-> SimpleObject("box", "large", "red")],
     stacks |-> <<<<"x">>, <<"u", "y">>, <<"z">>>>,
     holding |-> null,
     arm |-> 0]

\* "take" followed by an entity of the grammar
TakeCommands ==
    {[cmd |-> "take", entity |-> Entity(q, SimpleObject(f[1], f[2], f[3]))] :
        q \in {"any", "all", "the"},
        f \in {<<"anyform", null, null>>, <<"ball", null, null>>, <<"ball", "large", null>>,
               <<"ball", null, "black">>, <<"box", null, null>>, <<"pyramid", null, null>>}}
    \cup {[cmd |-> "take", entity |-> Entity("the", SimpleObject("floor", null, null))]}

\* Replies such as "the large one", "the white one", "the small ball"
Replies ==
    {[cmd |-> "clarification", entity |-> Entity("the", SimpleObject(f[1], f[2], f[3]))] :
        f \in {<<"anyform", "large", null>>, <<"anyform", null, "white">>,
               <<"anyform", null, "black">>, <<"ball", "small", null>>}}

\* What parse makes of an utterance: one parse, or none
Utterances == {<<c>> : c \in TakeCommands \cup Replies} \cup {<<>>}

InitDialog ==
    /\ world0 = DialogWorld
    /\ prob = [kind |-> "dialog", Command |-> <<>>, Clarifications |-> <<>>, entityCache |-> {}]
    /\ search = [status |-> "prompt", returned |-> Null("")]
    /\ last = [utterance |-> <<>>, pending |-> <<>>, command |-> <<>>, replies |-> <<>>]
    /\ node = Idle /\ exec = Idle

\* The user types an utterance of the given kind and the driver answers
Utter(kind) ==
    \E parses \in Utterances :
        /\ kind = (IF parses = <<>> THEN "noise"
                   ELSE IF IsClarification(parses) THEN "reply" ELSE "command")
        /\ kind = "reply" /\ prob.Command # <<>> => Len(last.replies) < MaxReplies
        /\ LET r == parseUtteranceIntoPlan(prob, parses, world0)
           IN  /\ prob' = r.driver
               /\ search' = [status |-> "answered", returned |-> r.returned]
        /\ last' = [utterance |-> parses,
                    pending |-> prob.Command,
                    command |-> IF kind = "command" THEN parses ELSE last.command,
                    replies |-> IF kind = "command" THEN <<>>
                                ELSE IF kind = "reply" /\ prob.Command # <<>>
                                THEN Append(last.replies, parses)
                                ELSE last.replies]
        /\ UNCHANGED <<world0, node, exec>>

UtterCommand == Utter("command")

UtterReply == Utter("reply")

UtterNoise == Utter("noise")

NextDialog == UtterCommand \/ UtterReply \/ UtterNoise

SpecDialog == InitDialog /\ [][NextDialog]_vars

\* C15: an utterance that parses as a clarification while no command is
\* pending is rejected: an error is reported, no plan is returned, and the
\* pending command (none), the clarification queue and the world stay as
\* they were.
C15_ClarificationRejected ==
    [][(prob.Command = <<>> /\ IsClarification(last'.utterance)) =>
          /\ search'.returned = Null("Expected an instruction, please enter a command.")
          /\ prob'.Command = <<>>
          /\ prob'.Clarifications = prob.Clarifications
          /\ world0' = world0]_vars

\* A reply was refused right after a command had been carried out
C15_Witness ==
    /\ IsClarification(last.utterance)
    /\ last.pending = <<>>
    /\ last.command # <<>>
    /\ search.returned.kind = "null"
    /\ prob.Command = <<>> /\ prob.Clarifications = <<>>

\* C16: while a command is pending, every clarification reply is appended to
\* the queue and stays available to every later retry: after k replies to
\* the same pending command the retried interpretation filters the
\* candidates by all k clarifications in the order given, so the driver
\* answers as interpret does on that command with all k replies queued.
C16_AllClarifications ==
    (IsClarification(last.utterance) /\ last.pending # <<>>) =>
        search.returned =
            interpreted(prob, interpret(last.command, last.replies, {}, world0)).returned

\* The objects of the world, and the floor, that a filter of the grammar
\* describes
Matches(filter) ==
    SelectSeq(world0.names \o <<"floor">>, LAMBDA name :
        LET o == IF name = "floor" THEN floor ELSE world0.objects[name]
        IN  /\ filter.form \in {"anyform", o.form}
            /\ filter.size \in {null, o.size}
            /\ filter.color \in {null, o.color})

\* Whether the driver has just answered the take command take with a formula
\* made of one conjunction holding(e) for each e of candidates, in order
TakeYields(candidates) ==
    /\ Len(search.returned.value) = 1
    /\ search.returned.value[1] =
          [i \in DOMAIN candidates |-> <<[relation |-> "holding", args |-> <<candidates[i]>>]>>]

\* The take command the driver has answered with an interpretation, if any
TakeAnswered ==
    /\ search.returned.kind = "interpretations"
    /\ last.command # <<>> /\ last.command[1].cmd = "take"

\* C19 as stated: a take command yields one single-literal conjunction
\* holding(e) for each candidate e of its entity (the one resolved candidate
\* when the quantifier is "the"), and it is rejected when the quantifier is
\* "all" and more than one candidate matches.
C19_TakeEveryCandidate ==
    LET entity == last.command[1].entity
    IN  /\ TakeAnswered =>
              IF entity.quantifier = "the"
              THEN \E e \in Range(Matches(entity.object)) : TakeYields(<<e>>)
              ELSE TakeYields(Matches(entity.object))
        /\ (last.command # <<>> /\ last.utterance = last.command
              /\ entity.quantifier = "all" /\ Len(Matches(entity.object)) > 1) =>
              search.returned.kind = "null"

\* C19, amended: a take command yields one single-literal conjunction
\* holding(e) for each candidate e of its entity other than the floor (the
\* one resolved candidate when the quantifier is "the"), in the order of the
\* world's objects; it is rejected when the quantifier is "all" and more than
\* one candidate, the floor counted, matches.
C19_TakeEveryObject ==
    LET entity == last.command[1].entity
        graspable == SelectSeq(Matches(entity.object), LAMBDA name : name # "floor")
    IN  /\ TakeAnswered =>
              IF entity.quantifier = "the"
              THEN \E e \in Range(graspable) : TakeYields(<<e>>)
              ELSE TakeYields(graspable)
        /\ (last.command # <<>> /\ last.utterance = last.command
              /\ entity.quantifier = "all" /\ Len(Matches(entity.object)) > 1) =>
              search.returned.kind = "null"

\* "take any object" has been answered with four conjunctions, none for the
\* floor
C19_Witness ==
    /\ TakeAnswered
    /\ last.command[1].entity = Entity("any", SimpleObject("anyform", null, null))
    /\ Len(search.returned.value[1]) = 4

-----------------------------------------------------------------------------
\* The choice of the final plan among the plans of several interpretations
\* (parseUtteranceIntoPlan, after plan() returned)

MaxPlans == 3
MaxTokens == 2

\* A sort that puts a result before the results of the same plan length
\* already placed
InsertBeforeTies(sorted, result) ==
    LET before == SelectSeq(sorted, LAMBDA r : Len(r.plan) < Len(result.plan))
        after == SelectSeq(sorted, LAMBDA r : Len(r.plan) >= Len(result.plan))
    IN  before \o <<result>> \o after

\* One step of plans.sort((a, b) => a.plan.length - b.plan.length): the
\* result is placed behind every result that does not compare greater
InsertByLength(sorted, result) ==
    LET before == SelectSeq(sorted, LAMBDA r : Len(r.plan) - Len(result.plan) <= 0)
        after == SelectSeq(sorted, LAMBDA r : Len(r.plan) - Len(result.plan) > 0)
    IN  before \o <<result>> \o after

RECURSIVE SortPlans(_)
SortPlans(plans) ==
    IF plans = <<>> THEN <<>>
    ELSE InsertByLength(SortPlans(Front(plans)), Last(plans))

\* finalPlan of parseUtteranceIntoPlan for the plans plan() returned
FinalPlan(plans) ==
    IF Len(plans) = 1 THEN plans[1].plan ELSE SortPlans(plans)[1].plan

\* The primitive parts of plans of at most MaxTokens tokens
TokenLists == UNION {[1..n -> {"p", "d"}] : n \in 0..MaxTokens}

\* What plan() returns: one result per interpretation that could be planned,
\* in the order of the interpretations, each plan ending with its summary
PlanLists ==
    UNION {{[i \in 1..n |-> [interpretation |-> i,
                             plan |-> Append(tokens[i], "Path")]] :
              tokens \in [1..n -> TokenLists]} : n \in 1..MaxPlans}

InitSelect ==
    /\ prob \in {[kind |-> "select", plans |-> plans] : plans \in PlanLists}
    /\ search = [status |-> "planned", finalPlan |-> <<>>]
    /\ world0 = [p \in {} |-> p]
    /\ exec = [p \in {} |-> p]
    /\ node = Idle
    /\ last = [stage |-> "select"]

\* parseUtteranceIntoPlan from the return of plan() to its own return
SelectFinalPlan ==
    /\ search.status = "planned"
    /\ search' = [status |-> "returned", finalPlan |-> FinalPlan(prob.plans)]
    /\ UNCHANGED <<world0, prob, exec, node, last>>

NextSelect == SelectFinalPlan

SpecSelect == InitSelect /\ [][NextSelect]_vars

\* The positions of the shortest plans among the plans
Shortest(plans) ==
    {i \in DOMAIN plans : \A j \in DOMAIN plans : Len(plans[i].plan) <= Len(plans[j].plan)}

FirstShortest(plans) ==
    CHOOSE i \in Shortest(plans) : \A j \in Shortest(plans) : i <= j

\* C18: when plan() returns several plans the driver returns one of minimal
\* length, and among the plans of that length the one of the interpretation
\* produced first
C18_ShortestFirst ==
    (search.status = "returned" /\ Len(prob.plans) > 1) =>
        search.finalPlan = prob.plans[FirstShortest(prob.plans)].plan

\* Several plans, two different shortest ones, neither at the front
C18_Witness ==
    /\ search.status = "returned"
    /\ Len(prob.plans) = 3
    /\ Shortest(prob.plans) = {2, 3}
    /\ prob.plans[2].plan # prob.plans[3].plan
    /\ search.finalPlan = prob.plans[2].plan

\* The last utterance reached interpret: it was a command, or a reply to a
\* pending command
Interpreted ==
    /\ search.status = "answered"
    /\ last.utterance # <<>>
    /\ IsClarification(last.utterance) => last.pending # <<>>

\* C27: a command is pending only after an utterance whose interpretation
\* raised an ambiguity signal; after an utterance whose interpretation
\* succeeded or failed with another error the driver awaits a command again,
\* so that a following clarification is rejected
C27_PendingOnlyAfterAmbiguity ==
    Interpreted => (prob.Command # <<>> <=> search.returned.kind = "question")

----------------------------------------------------------------------------
(* SpecInterpret: interpretCommand on one command of the grammar in a world *)

\* A table, a small brick, a small pyramid and a small box
TableWorld ==
    [names |-> <<"x", "y", "z", "u">>,
     objects |-> [x |-> SimpleObject("table", "large", "blue"),
                  y |-> SimpleObject("brick", "small", "white"),
                  z |-> SimpleObject("pyramid", "small", "black"),
                  u |-> SimpleObject("box", "small", "red")],
     stacks |-> <<<<"x", "y">>, <<"u">>, <<"z">>>>,
     holding |-> null,
     arm |-> 0]

\* Two bricks and two boxes
BrickWorld ==
    [names |-> <<"x", "y", "z", "u">>,
     objects |-> [x |-> SimpleObject("brick", "large", "green"),
                  y |-> SimpleObject("brick", "small", "white"),
                  z |-> SimpleObject("box", "large", "yellow"),
                  u |-> SimpleObject("box", "small", "red")],
     stacks |-> <<<<"x", "z">>, <<"y">>, <<"u">>>>,
     holding |-> null,
     arm |-> 0]

InterpretWorlds ==
    {DialogWorld, TableWorld, BrickWorld,
     [DialogWorld EXCEPT !.stacks = <<<<"x">>, <<"u">>, <<"z">>>>, !.holding = "y"],
     [TableWorld EXCEPT !.stacks = <<<<"x", "y">>, <<>>, <<"z">>>>, !.holding = "u"]}

\* The entities of the commands: quantified descriptions, and the floor
Entities ==
    {Entity(q, SimpleObject(f[1], f[2], f[3])) :
        q \in {"any", "all", "the"},
        f \in {<<"anyform", null, null>>, <<"ball", null, null>>, <<"box", null, null>>,
               <<"anyform", "small", null>>, <<"table", null, null>>,
               <<"brick", null, null>>}}
    \cup {Entity("the", SimpleObject("floor", null, null))}

Location(relation, entity) == [relation |-> relation, entity |-> entity]

Locations ==
    {Location(relation, entity) :
        relation \in {"leftof", "rightof", "beside", "inside", "ontop", "under", "above"},
        entity \in Entities}
    \cup {Location("at any location", Entity("the", SimpleObject("floor", null, null))),
          Location("holding", Entity("the", SimpleObject("floor", null, null)))}

\* "move" entity location, "take" entity, "drop" location
Commands ==
    {[cmd |-> "move", entity |-> entity, location |-> location] :
        entity \in Entities, location \in Locations}
    \cup {[cmd |-> "take", entity |-> entity] : entity \in Entities}
    \cup {[cmd |-> "drop", location |-> location] : location \in Locations}

InitInterpret ==
    /\ world0 \in InterpretWorlds
    /\ prob \in {[kind |-> "interpret", cmd |-> cmd] : cmd \in Commands}
    /\ search = [status |-> "parsed"]
    /\ last = [stage |-> "interpret"]
    /\ node = Idle /\ exec = Idle

\* new Interpreter(world).interpretCommand(cmd, [])
InterpretCommand ==
    /\ search.status = "parsed"
    /\ search' = [status |-> "interpreted",
                  result |-> interpretCommand(prob.cmd, <<>>, {}, world0)]
    /\ UNCHANGED <<world0, prob, exec, node, last>>

NextInterpret == InterpretCommand

SpecInterpret == InitInterpret /\ [][NextInterpret]_vars

\* C10: every literal of every conjunction of a formula returned by
\* interpretCommand passes isLiteralValid, and none has two identical arguments
C10_LiteralsValid ==
    (search.status = "interpreted" /\ search.result.outcome = "ok") =>
        \A c \in DOMAIN search.result.conjuncts :
            \A l \in DOMAIN search.result.conjuncts[c] :
                LET literal == search.result.conjuncts[c][l]
                IN  /\ isLiteralValid(literal, world0.objects)
                    /\ Len(literal.args) = 2 => literal.args[1] # literal.args[2]

\* A move of all objects of a description to any of several places, some of
\* the combinations left out
C10_Witness ==
    /\ search.status = "interpreted"
    /\ search.result.outcome = "ok"
    /\ prob.cmd.cmd = "move"
    /\ prob.cmd.entity.quantifier = "all"
    /\ prob.cmd.location.entity.quantifier = "any"
    /\ prob.cmd.location.relation = "ontop"
    /\ Len(search.result.conjuncts) > 1
    /\ Len(search.result.conjuncts[1]) > 1

\* The candidates of the entity of a command and of its location
OE == getObjects(prob.cmd.entity.object, world0)

LE == getObjects(prob.cmd.location.entity.object, world0)

\* A move of all objects of a description to any place of another, every
\* combination a valid literal with two different arguments
AllToAny ==
    /\ search.status = "interpreted"
    /\ prob.cmd.cmd = "move"
    /\ prob.cmd.entity.quantifier = "all"
    /\ prob.cmd.location.entity.quantifier = "any"
    /\ \A e \in Range(OE) : \A l \in Range(LE) :
          /\ e # l
          /\ isLiteralValid(Literal(prob.cmd.location.relation, <<e, l>>), world0.objects)

\* The conjunction of the choice function f, from the positions of OE to LE
Choice(f) == [j \in DOMAIN OE |-> Literal(prob.cmd.location.relation, <<OE[j], f[j]>>)]

\* The result holds one conjunction for each choice function, and no other
EveryChoice ==
    /\ search.result.outcome = "ok"
    /\ Len(search.result.conjuncts) = Cardinality([DOMAIN OE -> Range(LE)])
    /\ Range(search.result.conjuncts) = {Choice(f) : f \in [DOMAIN OE -> Range(LE)]}

\* C21 as stated: for a move command with entity mode conjunction and
\* location mode disjunction whose literals R(e, l) are all valid and not
\* self-referential, the result holds exactly |LE|^|OE| conjunctions, one
\* for each choice function f: OE -> LE, made of the literals R(e, f(e))
C21_EveryChoiceFunction == AllToAny => EveryChoice

\* C21 for candidates that exist: with OE and LE both non-empty the result
\* holds the conjunction of every choice function and no other; with either
\* empty there is no conjunction and the command is rejected
C21_EveryChoiceOfSome ==
    AllToAny => IF OE # <<>> /\ LE # <<>> THEN EveryChoice
                ELSE search.result.outcome = "error"

\* Two objects, each with two places to go
C21_Witness ==
    /\ AllToAny
    /\ Len(OE) = 2 /\ Len(LE) = 2
    /\ Len(search.result.conjuncts) = 4

\* A move command interpreted with each "the" of it naming one object
MoveResolved ==
    /\ search.status = "interpreted"
    /\ prob.cmd.cmd = "move"
    /\ prob.cmd.entity.quantifier = "the" => Len(OE) = 1
    /\ prob.cmd.location.entity.quantifier = "the" => Len(LE) = 1

\* The conjunctions of the quantifier combination before any literal is
\* removed: any objects stand for a disjunction, all and the for a conjunction
Derived ==
    LET R(e, l) == Literal(prob.cmd.location.relation, <<e, l>>)
        pairs == Pairs(OE, LE)
        any(entity) == entity.quantifier = "any"
    IN  IF ~any(prob.cmd.location.entity)
        THEN IF ~any(prob.cmd.entity)
             THEN {[p \in DOMAIN pairs |-> R(pairs[p][1], pairs[p][2])]}
             ELSE {[c \in DOMAIN LE |-> R(e, LE[c])] : e \in Range(OE)}
        ELSE IF ~any(prob.cmd.entity)
             THEN {Choice(f) : f \in [DOMAIN OE -> Range(LE)]}
             ELSE {<<R(e, l)>> : e \in Range(OE), l \in Range(LE)}

\* A conjunction with exactly its valid literals
ValidLiterals(conjunction) ==
    SelectSeq(conjunction, LAMBDA literal :
        /\ isLiteralValid(literal, world0.objects)
        /\ literal.args[1] # literal.args[2])

\* C22: in every quantifier combination of a move command invalid literals
\* are removed one by one: a conjunction is left out only if all its literals
\* are invalid, and is otherwise kept with exactly its valid literals
C22_RemovedIndividually ==
    MoveResolved =>
        IF {ValidLiterals(c) : c \in Derived} \ {<<>>} = {}
        THEN search.result.outcome = "error"
        ELSE /\ search.result.outcome = "ok"
             /\ Range(search.result.conjuncts) = {ValidLiterals(c) : c \in Derived} \ {<<>>}

\* The conjunction holds a literal R(x, x)
SelfReferential(conjunction) ==
    \E i \in DOMAIN conjunction : conjunction[i].args[1] = conjunction[i].args[2]

\* The conjunctions of the result made of literals of a self-referential
\* conjunction and of no conjunction without such a literal
FromSelfReferential ==
    {r \in Range(search.result.conjuncts) :
        /\ \E c \in Derived : SelfReferential(c) /\ Range(r) \subseteq Range(c)
        /\ \A c \in Derived : ~SelfReferential(c) => ~(Range(r) \subseteq Range(c))}

\* C23: a conjunction that contains a self-referential literal R(x, x) is
\* filtered out: no conjunction derived from it, with or without that
\* literal, is in the formula handed to the planner
C23_SelfReferentialDropped ==
    (MoveResolved /\ search.result.outcome = "ok") => FromSelfReferential = {}

\* C24: in every formula returned by the interpreter floor is never the
\* first argument of a literal, and is the second argument only of literals
\* whose relation is ontop, above or inside
C24_FloorArguments ==
    (search.status = "interpreted" /\ search.result.outcome = "ok") =>
        \A c \in DOMAIN search.result.conjuncts :
            \A l \in DOMAIN search.result.conjuncts[c] :
                LET literal == search.result.conjuncts[c][l]
                IN  /\ literal.args[1] # "floor"
                    /\ (Len(literal.args) = 2 /\ literal.args[2] = "floor") =>
                           literal.relation \in {"ontop", "above", "inside"}

----------------------------------------------------------------------------
(* SpecRelations: the relation test of matchLocation on two objects of a world *)

\* A relation test that does not ask whether the objects are in a stack
matchRelationAnywhere(relation, a, b, x) ==
    IF relation = "at any location" THEN TRUE
    ELSE IF relation = "holding" THEN getStackId(x, a) = -1
    ELSE relationTester(Literal(relation, <<a, b>>), x)

\* The relationTester closure of matchLocation for objectA a and objectB b
matchRelation(relation, a, b, x) ==
    IF relation = "at any location" THEN TRUE
    ELSE IF relation = "holding" THEN getStackId(x, a) = -1
    ELSE IF \/ getStackId(x, a) = -1 /\ a # "floor"
            \/ getStackId(x, b) = -1 /\ b # "floor"
    THEN FALSE
    ELSE relationTester(Literal(relation, <<a, b>>), x)

RelationStacks == 3

InitRelations ==
    /\ world0 \in {w \in WorldsOver(LeafIds, RelationStacks) : w.arm = 0}
    /\ prob \in {[kind |-> "relation", relation |-> relation, a |-> a, b |-> b] :
                    relation \in Relations \ {"holding"},
                    a \in LeafIds, b \in LeafIds \cup {"floor"}}
    /\ search = [status |-> "asked"]
    /\ last = [stage |-> "relation"]
    /\ node = Idle /\ exec = Idle

\* matchLocation asks whether a is in the relation to b
TestRelation ==
    /\ search.status = "asked"
    /\ search' = [status |-> "tested",
                  result |-> matchRelation(prob.relation, prob.a, prob.b, world0)]
    /\ UNCHANGED <<world0, prob, exec, node, last>>

NextRelations == TestRelation

SpecRelations == InitRelations /\ [][NextRelations]_vars

\* The columns of the world that hold the object, and its cells in them
ColumnsOf(object) == {c \in DOMAIN world0.stacks : object \in Range(world0.stacks[c])}

CellsOf(object, c) == {i \in DOMAIN world0.stacks[c] : world0.stacks[c][i] = object}

\* a and b share a column, a being distance cells above b
Over(a, b, distance) ==
    \E c \in ColumnsOf(a) \cap ColumnsOf(b) :
        \E i \in CellsOf(a, c), j \in CellsOf(b, c) : i - j \in distance

\* The relations as defined, for a and b in the stacks, and for the floor
Defined(relation, a, b) ==
    IF b = "floor"
    THEN CASE relation = "ontop" -> \E c \in ColumnsOf(a) : 1 \in CellsOf(a, c)
           [] relation = "above" -> ColumnsOf(a) # {}
    ELSE CASE relation = "leftof" -> \E ca \in ColumnsOf(a), cb \in ColumnsOf(b) : ca < cb
           [] relation = "rightof" -> \E ca \in ColumnsOf(a), cb \in ColumnsOf(b) : ca > cb
           [] relation = "beside" ->
                  \E ca \in ColumnsOf(a), cb \in ColumnsOf(b) : ca - cb \in {-1, 1}
           [] relation = "inside" -> Over(a, b, {1}) /\ Objects[b].form = "box"
           [] relation = "ontop" -> Over(a, b, {1}) /\ Objects[b].form # "box"
           [] relation = "under" -> Over(b, a, 1..Len(world0.stacks))
           [] relation = "above" -> Over(a, b, 1..Len(world0.stacks))

\* C25: the relation tests agree with their definitions in every world: for
\* a and b in stacks leftof, rightof, beside, inside, ontop, under and above
\* as defined; with b the floor, ontop iff a is at index 0 and above iff a is
\* in some stack; and every relation is false when a or b is held
C25_RelationsAsDefined ==
    (/\ search.status = "tested"
     /\ prob.b = "floor" => prob.relation \in {"ontop", "above"}) =>
        search.result = IF world0.holding \in {prob.a, prob.b} THEN FALSE
                        ELSE Defined(prob.relation, prob.a, prob.b)

\* A held ball is not above the floor, and a table in a box is inside it
C25_Witness ==
    /\ search.status = "tested"
    /\ \/ /\ prob.relation = "above" /\ prob.b = "floor" /\ world0.holding = prob.a
          /\ ~search.result
       \/ /\ prob.relation = "inside" /\ prob.a = "e" /\ prob.b = "b"
          /\ world0.stacks[2] = <<"b", "e">>
          /\ search.result

----------------------------------------------------------------------------
(* SpecEntity: interpretEntity on an entity with the quantifier "the" and a
   queue of clarifications *)

MaxQueue == 2

\* The queues of clarifications: each entry holds the parses of one reply
Queues == UNION {[1..n -> {<<reply>> : reply \in Replies}] : n \in 0..MaxQueue}

InitEntity ==
    /\ world0 \in InterpretWorlds
    /\ prob \in {[kind |-> "entity", entity |-> entity, clarifications |-> queue] :
                    entity \in {e \in Entities : e.quantifier = "the"}, queue \in Queues}
    /\ search = [status |-> "parsed"]
    /\ last = [stage |-> "entity"]
    /\ node = Idle /\ exec = Idle

\* Interpreter.interpretEntity(ent, clarifications, world)
ResolveEntity ==
    /\ search.status = "parsed"
    /\ search' = [status |-> "resolved",
                  result |-> interpretEntity(prob.entity, prob.clarifications, world0)]
    /\ UNCHANGED <<world0, prob, exec, node, last>>

NextEntity == ResolveEntity

SpecEntity == InitEntity /\ [][NextEntity]_vars

\* The candidates of the entity that the first n clarifications of the queue
\* all admit
Admitted(n) ==
    SelectSeq(getObjects(prob.entity.object, world0), LAMBDA name :
        \A q \in 1..n : \E i \in DOMAIN prob.clarifications[q] :
            matchObject(prob.clarifications[q][i].entity.object, name, world0))

\* The number of clarifications the resolution took off the queue
Consumed == Len(prob.clarifications) - Len(search.result.clarifications)

\* C26: resolving an entity with the quantifier "the" has three outcomes:
\* mode conjunction with exactly the one candidate that remains after the
\* clarifications consumed; a user error when no candidate matches; an
\* ambiguity signal carrying the question when more than one candidate
\* remains after every queued clarification has been consumed
C26_ThreeOutcomes ==
    search.status = "resolved" =>
        /\ search.result.clarifications =
               SubSeq(prob.clarifications, Consumed + 1, Len(prob.clarifications))
        /\ Consumed > 0 => Len(Admitted(Consumed - 1)) > 1
        /\ CASE search.result.outcome = "ok" ->
                    /\ search.result.junction = "Conjunction"
                    /\ search.result.objects = Admitted(Consumed)
                    /\ Len(search.result.objects) = 1
             [] search.result.outcome = "error" -> Admitted(Consumed) = <<>>
             [] search.result.outcome = "ambiguity" ->
                    /\ search.result.clarifications = <<>>
                    /\ Len(Admitted(Consumed)) > 1
                    /\ search.result.message = Admitted(Consumed)
             [] OTHER -> FALSE

\* Two clarifications queued, both needed to single out the object
C26_Witness ==
    /\ search.status = "resolved"
    /\ search.result.outcome = "ok"
    /\ Len(prob.clarifications) = 2
    /\ search.result.clarifications = <<>>
    /\ Len(Admitted(1)) > 1

----------------------------------------------------------------------------
(* SpecParses: interpret on the parses of an utterance and a queue of
   clarifications *)

MaxParses == 2

\* The commands the parses are made of
ParsedCommands ==
    {[cmd |-> "take", entity |-> Entity(q, SimpleObject(f[1], f[2], f[3]))] :
        q \in {"any", "the"},
        f \in {<<"ball", null, null>>, <<"ball", "large", null>>, <<"box", null, null>>}}
    \cup {[cmd |-> "take", entity |-> Entity("the", SimpleObject("floor", null, null))],
          [cmd |-> "move", entity |-> Entity("the", SimpleObject("ball", null, "white")),
           location |-> Location("inside", Entity("the", SimpleObject("box", null, null)))]}

\* What parse returns: one parse, or several ("please take the ball" has two
\* equal ones, an attachment ambiguity two different ones)
ParseLists == UNION {[1..n -> ParsedCommands] : n \in 1..MaxParses}

InitParses ==
    /\ world0 \in {DialogWorld, TableWorld}
    /\ prob \in {[kind |-> "parses", parses |-> parses, clarifications |-> queue] :
                    parses \in ParseLists, queue \in Queues}
    /\ search = [status |-> "parsed"]
    /\ last = [stage |-> "parses"]
    /\ node = Idle /\ exec = Idle

\* interpret(parses, clarifications, world)
Interpret ==
    /\ search.status = "parsed"
    /\ search' = [status |-> "interpreted",
                  result |-> interpret(prob.parses, prob.clarifications, {}, world0)]
    /\ UNCHANGED <<world0, prob, exec, node, last>>

NextParses == Interpret

SpecParses == InitParses /\ [][NextParses]_vars

\* The parses that can be interpreted, or could be after a clarification
Interpretable ==
    SelectSeq(prob.parses, LAMBDA parse :
        interpretCommand(parse, <<>>, {}, world0).outcome \in {"ok", "ambiguity"})

\* The interpretable parses compatible with the first n clarifications
Compatible(n) ==
    SelectSeq(Interpretable, LAMBDA parse :
        \A q \in 1..n : \E i \in DOMAIN prob.clarifications[q] :
            isObjectMatch(prob.clarifications[q][i].entity.object, parse.entity.object))

\* The number of clarifications applied: as many as it takes to leave at most
\* one parse, all of the queue otherwise
Applied ==
    IF \E n \in 0..Len(prob.clarifications) : Len(Compatible(n)) <= 1
    THEN CHOOSE n \in 0..Len(prob.clarifications) :
             /\ Len(Compatible(n)) <= 1
             /\ \A m \in 0..(n - 1) : Len(Compatible(m)) > 1
    ELSE Len(prob.clarifications)

\* C28: interpret either returns exactly one interpretation or raises: an
\* ambiguity signal carrying a question when more than one parse remains
\* compatible after the queued clarifications have been applied, a user error
\* when the clarifications eliminate every parse, and a failure joining the
\* errors of the parses when no parse can be interpreted at all
C28_OneOrRaise ==
    search.status = "interpreted" =>
        /\ search.result.outcome \in {"ok", "ambiguity", "error"}
        /\ search.result.outcome = "ok" => Len(search.result.interpretations) = 1
        /\ IF Interpretable = <<>>
           THEN search.result.outcome = "error" /\ search.result.message = "errors"
           ELSE IF Compatible(Applied) = <<>>
           THEN /\ search.result.outcome = "error"
                /\ search.result.message = "No interpretation matches your clarifications."
           ELSE IF Len(Compatible(Applied)) > 1
           THEN /\ search.result.outcome = "ambiguity"
                /\ search.result.message = Compatible(Applied)
           ELSE LET one == interpretCommand(Compatible(Applied)[1], prob.clarifications,
                                            {}, world0)
                IN  /\ search.result.outcome = one.outcome
                    /\ one.outcome = "ok" =>
                           search.result.interpretations = <<one.conjuncts>>

\* Two different parses of which a clarification leaves one, interpreted
C28_Witness ==
    /\ search.status = "interpreted"
    /\ search.result.outcome = "ok"
    /\ Len(Interpretable) = 2
    /\ Interpretable[1] # Interpretable[2]
    /\ Applied = 1

----------------------------------------------------------------------------
(* SpecPerform: the driver's plan path.  An utterance that                  *)
(* splitStringIntoPlan recognizes is handed to performPlan together with    *)
(* the callback that asks for the next input; one plan item per step.       *)

\* Longest utterance, in words
MaxWords == 3

\* Words of the utterances: the four primitives, a word that is no key of the
\* actions table, and a word that is no own key but a member every object
\* literal inherits from Object.prototype
Words == {"p", "d", "l", "r", "take", "constructor"}

\* What String() shows of the function found under an inherited key; no word
\* holds blanks, so no string item of a plan equals it
ObjectFunction == "function Object() { [native code] }"

\* actions[word] of splitStringIntoPlan: the annotation of a primitive, the
\* inherited member, or undefined (the empty string here)
Annotation(word) ==
    CASE word = "p" -> "Picking"
      [] word = "d" -> "Dropping"
      [] word = "l" -> "Going left"
      [] word = "r" -> "Going right"
      [] word = "constructor" -> ObjectFunction
      [] OTHER -> ""

\* splitStringIntoPlan(planstring), planstring given as its words: null (the
\* empty sequence here; the function returns no empty array) when actions
\* has nothing for some word, else every word preceded by actions[word]
splitStringIntoPlan(words) ==
    IF words = <<>> \/ \E i \in DOMAIN words : Annotation(words[i]) = ""
    THEN <<>>
    ELSE [k \in 1..(2 * Len(words)) |->
            IF k % 2 = 1 THEN Annotation(words[(k + 1) \div 2]) ELSE words[k \div 2]]

\* A variant of the lookup below that finds own keys only
actionKindOwn(item) ==
    IF item \in Range(Actions) THEN "primitive" ELSE "none"

\* actions[act.toLowerCase()] of getAction: one of the four methods, a
\* function inherited from Object.prototype, or undefined
actionKind(item) ==
    IF item \in Range(Actions) THEN "primitive"
    ELSE IF item = "constructor" THEN "inherited"
    ELSE "none"

InitPerform ==
    /\ world0 \in WorldsOver(PrimIds, PrimStacks)
    /\ prob \in {[kind |-> "utterance", words |-> w] :
                    w \in {s \in UNION {[1..n -> Words] : n \in 1..MaxWords} :
                              splitStringIntoPlan(s) # <<>>}}
    /\ exec = TextWorld(world0)
    /\ last = [rest |-> splitStringIntoPlan(prob.words), status |-> "running",
               callbacks |-> 0, item |-> "", before |-> TextWorld(world0)]
    /\ node = Idle
    /\ search = Idle

\* performNextAction on item, the plan's next entry, that ends as status:
\*   thrown    item is no string, item.trim() raises outside every try
\*   failed    the primitive raised; the catch schedules the callback
\*   stalled   the inherited function returns without calling performNextAction
\*   running   the primitive was performed or the annotation printed
\*   completed the plan is empty; the callback is scheduled
performNextAction(status) ==
    /\ last.status = "running"
    /\ LET item == IF last.rest = <<>> THEN "" ELSE Head(last.rest)
           kind == actionKind(item)
           done == IF kind = "primitive" THEN getAction(exec, item) ELSE exec
           ends ==
               IF last.rest = <<>> THEN "completed"
               ELSE IF item = ObjectFunction THEN "thrown"
               ELSE IF kind = "primitive" THEN (IF done.error THEN "failed" ELSE "running")
               ELSE IF kind = "inherited" THEN "stalled"
               ELSE "running"
       IN  /\ status = ends
           /\ exec' = IF ends = "failed" THEN exec ELSE done
           /\ last' = [rest |-> IF last.rest = <<>> THEN <<>> ELSE Tail(last.rest),
                       status |-> ends,
                       callbacks |-> last.callbacks
                                       + (IF ends \in {"failed", "completed"} THEN 1 ELSE 0),
                       item |-> item,
                       before |-> exec]
    /\ UNCHANGED <<world0, prob, node, search>>

PerformItem == performNextAction("running")

PerformFailed == performNextAction("failed")

PerformCompleted == performNextAction("completed")

PerformThrown == performNextAction("thrown")

NextPerform == PerformItem \/ PerformFailed \/ PerformCompleted \/ PerformThrown

SpecPerform == InitPerform /\ [][NextPerform]_vars

\* C32: when an item fails during performPlan no later item is applied to
\* the world and the completion callback is invoked exactly once; it is also
\* invoked exactly once when the plan runs to its end, and never earlier; an
\* annotation leaves the world as it was.
C32_CallbackOnce ==
    /\ (last.status = "running" => last.callbacks = 0)
    /\ (last.status \in {"failed", "thrown", "completed"} => last.callbacks = 1)
    /\ (last.status \in {"failed", "thrown"} => exec = last.before)
    /\ (last.status = "running" /\ actionKind(last.item) = "none" => exec = last.before)

\* The same for the plans that hold strings only
StringPlan == \A i \in DOMAIN prob.words : prob.words[i] \in Range(Actions)

PerformStrings == StringPlan => C32_CallbackOnce

\* A primitive refused after an earlier one was performed, items left over
PerformStopped ==
    /\ StringPlan /\ last.status = "failed" /\ last.rest # <<>>
    /\ exec.stacks # world0.stacks /\ last.callbacks = 1

----------------------------------------------------------------------------
(* SpecShare: the arrays behind the world and the low-level nodes.  An      *)
(* array is an address of the heap; the WorldState and every NodeLowLevel   *)
(* hold the addresses of their stacks, so that a write through one object   *)
(* is seen by every object holding the same address.                        *)

\* Calls of GraphLowLevel.successors followed in one behaviour
MaxExpansions == 3

\* The arrays the addresses refs point to
Deref(heap, refs) == [i \in DOMAIN refs |-> heap[refs[i]]]

\* The node value an object stands for
ValueOf(heap, object) ==
    [stacks |-> Deref(heap, object.stacks), holding |-> object.holding,
     arm |-> object.arm, fresh |-> object.fresh]

\* A constructor that keeps the arrays it is given
NodeLowLevelSharing(heap, refs, holding, arm) ==
    [heap |-> heap,
     object |-> [stacks |-> refs, holding |-> holding, arm |-> arm, fresh |-> TRUE]]

\* new NodeLowLevel(stacks, holding, arm, world): a new outer array holding a
\* slice() of every stack
NodeLowLevel(heap, refs, holding, arm) ==
    [heap |-> heap \o Deref(heap, refs),
     object |-> [stacks |-> [i \in DOMAIN refs |-> Len(heap) + i],
                 holding |-> holding, arm |-> arm, fresh |-> TRUE]]

\* NodeLowLevel.clone
clone(heap, object) == NodeLowLevel(heap, object.stacks, object.holding, object.arm)

\* updateState on an object: the pick or drop writes the array of the arm's
\* column in place, the rest are fields of the object
updateStateInPlace(heap, object, action) ==
    LET r == updateState(ValueOf(heap, object), action) IN
    [ok |-> r.ok,
     heap |-> [k \in DOMAIN heap |->
                  IF k = object.stacks[object.arm + 1]
                  THEN r.node.stacks[object.arm + 1] ELSE heap[k]],
     object |-> [object EXCEPT !.holding = r.node.holding, !.arm = r.node.arm,
                               !.fresh = r.node.fresh]]

\* GraphLowLevel.successors from action number i on: a clone per action,
\* kept when its updateState accepts the action (the arrays of a refused
\* clone are unreachable and dropped)
RECURSIVE successorsFrom(_, _, _, _)
successorsFrom(heap, current, i, result) ==
    IF i > Len(Actions) THEN [heap |-> heap, result |-> result]
    ELSE LET c == clone(heap, current)
             u == updateStateInPlace(c.heap, c.object, Actions[i])
         IN  IF u.ok
             THEN successorsFrom(u.heap, current, i + 1, Append(result, u.object))
             ELSE successorsFrom(heap, current, i + 1, result)

InitShare ==
    /\ world0 \in WorldsOver(PrimIds, PrimStacks)
    /\ search = [heap |-> world0.stacks]
    /\ exec = [stacks |-> [i \in DOMAIN world0.stacks |-> i],
               holding |-> world0.holding, arm |-> world0.arm]
    /\ node = <<>>
    /\ last = [op |-> "none", expansions |-> 0]
    /\ prob = Idle

\* NodeLowLevel.fromWorld(world): the start node of a search
StartNode ==
    /\ node = <<>>
    /\ LET n == NodeLowLevel(search.heap, exec.stacks, exec.holding, exec.arm) IN
       /\ search' = [heap |-> n.heap]
       /\ node' = <<[object |-> n.object, made |-> ValueOf(n.heap, n.object)]>>
    /\ last' = [last EXCEPT !.op = "fromWorld"]
    /\ UNCHANGED <<world0, exec, prob>>

\* graph.successors(current) for a node made earlier; made is the value an
\* object had when successors returned it
ExpandNode ==
    /\ last.expansions < MaxExpansions
    /\ \E i \in DOMAIN node :
          LET s == successorsFrom(search.heap, node[i].object, 1, <<>>) IN
          /\ search' = [heap |-> s.heap]
          /\ node' = node \o [j \in DOMAIN s.result |->
                                [object |-> s.result[j],
                                 made |-> ValueOf(s.heap, s.result[j])]]
    /\ last' = [op |-> "successors", expansions |-> last.expansions + 1]
    /\ UNCHANGED <<world0, exec, prob>>

NextShare == StartNode \/ ExpandNode

SpecShare == InitShare /\ [][NextShare]_vars

\* C33: planning leaves the stacks, holding and arm of the WorldState as they
\* were; generating the successors of a low-level node, its clones included,
\* leaves the stacks, holding and arm of every node made so far as they
\* were; no two nodes, and no node and the world, hold the same array.
C33_NothingShared ==
    /\ Deref(search.heap, exec.stacks) = world0.stacks
    /\ exec.holding = world0.holding /\ exec.arm = world0.arm
    /\ \A i \in DOMAIN node : ValueOf(search.heap, node[i].object) = node[i].made
    /\ \A i \in DOMAIN node :
          Range(node[i].object.stacks) \cap Range(exec.stacks) = {}
    /\ \A i, j \in DOMAIN node :
          i # j => Range(node[i].object.stacks) \cap Range(node[j].object.stacks) = {}

\* Three calls of successors, each on a successor of the one before: an
\* object picked from one column and dropped on another
C33_Witness ==
    /\ last.op = "successors" /\ last.expansions = 3
    /\ \E i, j \in DOMAIN node :
          /\ node[i].made.holding # world0.holding /\ node[i].made.holding # null
          /\ node[j].made.holding = null
          /\ node[j].made.stacks # world0.stacks
          /\ node[i].made.stacks # node[j].made.stacks

----------------------------------------------------------------------------
(* SpecColumns: the stack predicates of MoveToStackGoal, asked of every     *)
(* column of a low-level state                                              *)

InitColumns ==
    /\ world0 \in WorldsOver(LeafIds, PlanStacks)
    /\ prob \in {[kind |-> "column", relation |-> relation, goal |-> goal, stackId |-> c] :
                    relation \in {"beside", "leftof", "rightof"}, goal \in LeafIds,
                    c \in 0..(PlanStacks - 1)}
    /\ node = fromWorld(world0)
    /\ search = [status |-> "asked"]
    /\ last = [stage |-> "column"]
    /\ exec = Idle

\* this.stackCheck[relation](goal)(stackId, state)
CheckColumn ==
    /\ search.status = "asked"
    /\ search' = [status |-> "checked",
                  result |-> stackCheck(prob.relation, prob.goal, prob.stackId, node)]
    /\ UNCHANGED <<world0, prob, exec, node, last>>

NextColumns == CheckColumn

SpecColumns == InitColumns /\ [][NextColumns]_vars

\* Whether the goal object lies in a stack of the state, and its 0-based column
InStacks(g) == \E c \in DOMAIN node.stacks : g \in Range(node.stacks[c])

col(g) == (CHOOSE c \in DOMAIN node.stacks : g \in Range(node.stacks[c])) - 1

\* C34, as stated: for a goal object g lying in a stack, rightof(g) holds
\* for column col iff col < col(g), leftof(g) iff col > col(g), and
\* beside(g) iff |col - col(g)| = 1.
C34_ColumnsAsStated ==
    (search.status = "checked" /\ InStacks(prob.goal)) =>
        search.result =
            CASE prob.relation = "rightof" -> prob.stackId < col(prob.goal)
              [] prob.relation = "leftof"  -> prob.stackId > col(prob.goal)
              [] prob.relation = "beside"  -> Abs(prob.stackId - col(prob.goal)) = 1

\* C34, amended: leftof(g) holds for column col iff g lies in a stack and
\* col < col(g), rightof(g) iff g lies in a stack and col > col(g), and
\* beside(g) iff g lies in a stack and |col - col(g)| = 1; for a g that lies
\* in no stack (it is held) none of them holds.
C34_ColumnsAsCoded ==
    search.status = "checked" =>
        search.result =
            IF ~InStacks(prob.goal) THEN FALSE
            ELSE CASE prob.relation = "rightof" -> prob.stackId > col(prob.goal)
                   [] prob.relation = "leftof"  -> prob.stackId < col(prob.goal)
                   [] prob.relation = "beside"  -> Abs(prob.stackId - col(prob.goal)) = 1

\* Column 0 is found left of an object standing in column 2
C34_Witness ==
    /\ search.status = "checked"
    /\ prob.relation = "leftof" /\ prob.stackId = 0
    /\ InStacks(prob.goal) /\ col(prob.goal) = 2
    /\ search.result

----------------------------------------------------------------------------
(* SpecClear: ClearStackGoal.isFulfilled asked of the low-level states that *)
(* the primitives reach from a world with as many objects as columns        *)

\* Number of columns of these worlds
ClearStacks == 2

InitClear ==
    /\ world0 \in WorldsOver(PrimIds, ClearStacks)
    /\ node = fromWorld(world0)
    /\ last = [act |-> "", ok |-> TRUE]
    /\ exec = Idle /\ prob = Idle /\ search = Idle

\* One primitive on the search's current state; state.world stays the world
\* the start node was made from
ClearPrim(act) ==
    /\ node' = updateState(node, act).node
    /\ last' = [act |-> act, ok |-> updateState(node, act).ok]
    /\ UNCHANGED <<world0, exec, prob, search>>

ClearLeft == ClearPrim("l")

ClearRight == ClearPrim("r")

ClearPick == ClearPrim("p")

ClearDrop == ClearPrim("d")

NextClear == ClearLeft \/ ClearRight \/ ClearPick \/ ClearDrop

SpecClear == InitClear /\ [][NextClear]_vars

\* new ClearStackGoal(item, ...)
ClearStackGoal(item) == [cls |-> "ClearStack", item |-> item]

\* Whether x is the top of a stack of the state
TopOfStack(x, state) ==
    \E c \in DOMAIN state.stacks : state.stacks[c] # <<>> /\ Last(state.stacks[c]) = x

\* ClearStack(x) is fulfilled in a state iff x is the top of its stack there
ClearObject ==
    \A x \in PrimIds :
        ClearStackFulfilled(ClearStackGoal(x), node, world0) <=> TopOfStack(x, node)

\* C35: in every low-level state ClearStack(x) is fulfilled iff x is the top
\* of its stack in that state, and ClearStack(floor) is fulfilled iff some
\* stack of that state, not of the initial world, is empty.
C35_ClearStack ==
    /\ ClearObject
    /\ ClearStackFulfilled(ClearStackGoal("floor"), node, world0)
           <=> \E c \in DOMAIN node.stacks : node.stacks[c] = <<>>

----------------------------------------------------------------------------
(* SpecTree: the formula of an interpretation before and after              *)
(* GraphHighLevel builds the goal tree from it.  The literals are objects   *)
(* the tree's constructors are handed; what they leave in them is the       *)
(* formula the ShrdliteResult shows afterwards.                             *)

\* Most literals in a conjunction, most conjunctions in a formula
MaxLiterals == 2

MaxConjunctions == 2

\* The literals of these formulas
TreeLiterals ==
    {Lit("holding", <<x>>) : x \in {"a", "b"}}
    \cup {Lit(r, xy) : r \in Relations \ {"holding"}, xy \in {<<"a", "b">>, <<"b", "e">>}}

TreeFormulas ==
    LET conjunctions == UNION {[1..n -> TreeLiterals] : n \in 1..MaxLiterals}
    IN  [1..1 -> conjunctions]
        \cup {f \in [1..MaxConjunctions -> conjunctions] : Len(f[1]) = 1 /\ Len(f[2]) = 1}

\* ConjunctionGoal.create, as far as the literal it is handed goes: the
\* under branch assigns literal.args its own reverse
create(literal) ==
    IF literal.relation = "under"
    THEN [literal EXCEPT !.args = Reverse(literal.args)]
    ELSE literal

\* new ConjunctionGoal(conjunction, ...): create for every literal
ConjunctionGoal(conjunction) == [l \in DOMAIN conjunction |-> create(conjunction[l])]

\* new DnfGoal(dnf): a ConjunctionGoal for every conjunction
DnfGoal(dnf) == [c \in DOMAIN dnf |-> ConjunctionGoal(dnf[c])]

InitTree ==
    /\ prob \in {[kind |-> "formula", dnf |-> dnf] : dnf \in TreeFormulas}
    /\ search = [status |-> "interpreted", formula |-> prob.dnf]
    /\ last = [stage |-> "tree"]
    /\ world0 = Idle /\ node = Idle /\ exec = Idle

\* new GraphHighLevel(interpretation.interpretation)
GraphHighLevel ==
    /\ search.status = "interpreted"
    /\ search' = [status |-> "built", formula |-> DnfGoal(search.formula)]
    /\ UNCHANGED <<world0, prob, exec, node, last>>

NextTree == GraphHighLevel

SpecTree == InitTree /\ [][NextTree]_vars

\* C39: building the goal tree leaves the formula as it was: every literal
\* of the DNF, under literals included, has the relation and the argument
\* order it had before planning.
C39_FormulaKept == search.formula = prob.dnf


\* ---------------------------------------------------------------------------
\* Successive interpretCommand calls of one session: the static entityCache
\* ---------------------------------------------------------------------------

MaxCalls == 2

\* The entities of the commands of a session
CacheEntities ==
    {Entity(q, SimpleObject(form, null, null)) :
        q \in {"any", "the"}, form \in {"ball", "box"}}

CacheCommands ==
    {[cmd |-> "move", entity |-> entity, location |-> Location(relation, place)] :
        entity \in CacheEntities, relation \in {"beside", "inside"},
        place \in CacheEntities}
    \cup {[cmd |-> "take", entity |-> entity] : entity \in CacheEntities}

\* Interpreter.entityCache is a static Map, empty when the class is loaded
InitCache ==
    /\ world0 \in {DialogWorld, BrickWorld}
    /\ prob = [kind |-> "session", entityCache |-> {}]
    /\ search = [status |-> "idle", calls |-> 0]
    /\ last = [began |-> {}, outcome |-> "none"]
    /\ node = Idle /\ exec = Idle

\* One call interpretCommand(cmd, []) by a caller that catches what it throws;
\* last.began is the content of entityCache when the call begins
InterpretCall(cmd) ==
    /\ search.calls < MaxCalls
    /\ LET r == interpretCommand(cmd, <<>>, prob.entityCache, world0)
       IN  /\ prob' = [prob EXCEPT !.entityCache = r.cache]
           /\ last' = [began |-> prob.entityCache, outcome |-> r.outcome]
           /\ node' = [kind |-> "command", cmd |-> cmd]
    /\ search' = [status |-> "called", calls |-> search.calls + 1]
    /\ UNCHANGED <<world0, exec>>

NextCache == \E cmd \in CacheCommands : InterpretCall(cmd)

SpecCache == InitCache /\ [][NextCache]_vars

\* C40: the entity cache is empty whenever an interpretCommand call begins,
\* also when the call before it ended with an ambiguity signal or an error.
C40_CacheEmptyAtStart == search.status = "called" => last.began = {}

\* A call whose formula is returned leaves the cache empty
CacheClearedOnReturn == (search.status = "called" /\ last.outcome = "ok") => prob.entityCache = {}
====
